---- MODULE Spec2Model ----
(***************************************************************************)
(* State-machine model of the project-state reconciliation engine of the   *)
(* Flutter builder bot: the structural validator (repair loop), the        *)
(* project context store, the task planner and the development loop, the   *)
(* dependency manifest updater and the entry-point (main.dart) merge.      *)
(*                                                                         *)
(* Text is modelled as a sequence of tokens (a token is a line, a word or  *)
(* a markdown fence, depending on the function that reads it).  External   *)
(* collaborators (the text-generation client, dart analyze, the file     *)
(* system walk order) are nondeterministic choices over what they can      *)
(* return, including raising.                                              *)
(***************************************************************************)
EXTENDS Integers, Sequences, FiniteSets, TLC

VARIABLES
    \* ---- configuration (module config, imported by the sources)
    SKIP_DART_ANALYSIS,
    \* ---- FlutterProjectValidator.validate_and_fix_dart_code, one call
    v_pc,        \* position in the call: idle / check / repair / recheck / done
    v_content,   \* the content argument
    v_fixed,     \* the value fix_dart_code returned (NoText before that)
    v_first,     \* what the first run of the checker reported
    v_second,    \* what the second run of the checker reported
    v_calls,     \* the collaborators invoked so far, in order
    v_ret,       \* the returned value (NoText until the call returns)
    v_raised,    \* TRUE when the call ended with an exception
    \* ---- ProjectContextManager and the project root on disk
    disk,               \* the files under project_root: path -> content, NoText when absent
    file_contents,      \* self.file_contents, a dict in insertion order
    project_structure,  \* self.project_structure
    s_op,               \* the operation that ran last
    s_raised,           \* TRUE when that operation ended with an exception
    s_digest,           \* the string get_context_prompt returned, while no other operation ran
    s_reads,            \* calls of get_context_prompt since the last other operation
    \* ---- pubspec.yaml and TaskPlanner.update_pubspec_yaml
    pubspec_yaml,       \* the lines of the manifest file
    m_declared,         \* package name -> version of the last declaration applied ("" for none)
    m_new,              \* the new_dependencies argument of the last call
    m_merges,           \* calls of update_pubspec_yaml so far
    \* ---- manage_dart_imports on one file of project_files
    i_text,             \* the lines of project_files[file_path]
    i_before,           \* the lines the last call started from
    i_adds,             \* the imports_to_add argument of the last call
    i_passes,           \* calls of manage_dart_imports so far
    \* ---- ensure_correct_structure, on project_files = file_contents
    r_pc,               \* where the call stands
    created_widgets,    \* task_context.created_widgets: widget name -> file path
    routes,             \* task_context.routes: route -> widget name
    r_updates,          \* analysis["main_dart_updates"] of the call
    r_dependencies,     \* analysis["dependencies"] of the call
    r_attempt,          \* attempts of update_main_dart made in the call
    r_accepted,         \* whether a candidate passed the gate of update_main_dart
    r_before,           \* entry content in memory and on disk when update_main_dart was called
    r_idx,              \* files of project_files that step 8 has gone through
    r_runs,             \* calls of ensure_correct_structure so far
    \* ---- development_loop and TaskPlanner.generate_task_plan
    USE_DART_VALIDATOR, \* the configuration flag: whether there is a flutter_validator
    flutter_process,    \* whether the loop holds a process of the app
    l_pc,               \* where the loop stands
    l_tasks,            \* tasks entered so far
    g_attempt,          \* attempts of generate_task_plan made for the task
    g_seen,             \* kind and required keys of the value the last attempt parsed
    g_verdict,          \* what the last attempt came to
    task_plan,          \* the plan generate_task_plan returned
    l_step,             \* steps of the plan gone through
    l_content,          \* the content generated or validated last
    l_ops,              \* file operations of the task so far
    l_main_calls,       \* collaborator calls of update_main_dart in the task
    l_main_before,      \* lib/main.dart in the store when update_main_dart was called
    \* ---- parse_json_response and TaskPlanner.extract_json, one call
    j_fn,               \* the function called
    j_text,             \* the raw response handed to it
    j_pc,               \* start / correct (the correction is due) / done
    j_calls,            \* calls of the correction collaborator in this parse call
    j_answer,           \* what the correction collaborator answered
    j_ret,              \* the value returned
    j_raised,           \* TRUE when the call ended with an exception
    \* ---- TaskPlanner._simplify_plan, one call
    q_plan,             \* the validated plan handed to it
    q_pc,               \* start / done
    q_out,              \* the plan it returned
    \* ---- run_flutter_app: the flutter run process and the output thread
    x_process,          \* alive / blocked_stdout / blocked_stderr / exited
    x_stdout,           \* the lines in the stdout pipe, oldest first
    x_stderr,           \* the number of lines in the stderr pipe
    x_produced,         \* lines the process has written so far
    x_reader,           \* handle_flutter_output: reading / ended
    x_read,             \* lines handle_flutter_output has read
    x_main,             \* the control flow: sleep (in run_flutter_app) / loop
    x_writers           \* the threads in the middle of a change of the store

vvars == <<SKIP_DART_ANALYSIS, v_pc, v_content, v_fixed, v_first, v_second, v_calls, v_ret, v_raised>>

svars == <<disk, file_contents, project_structure, s_op, s_raised, s_digest, s_reads>>

mvars == <<pubspec_yaml, m_declared, m_new, m_merges>>

ivars == <<i_text, i_before, i_adds, i_passes>>

rvars == <<r_pc, created_widgets, routes, r_updates, r_dependencies, r_attempt,
           r_accepted, r_before, r_idx, r_runs>>

lvars == <<USE_DART_VALIDATOR, flutter_process, l_pc, l_tasks, g_attempt, g_seen, g_verdict,
           task_plan, l_step, l_content, l_ops, l_main_calls, l_main_before>>

jvars == <<j_fn, j_text, j_pc, j_calls, j_answer, j_ret, j_raised>>

qvars == <<q_plan, q_pc, q_out>>

xvars == <<x_process, x_stdout, x_stderr, x_produced, x_reader, x_read, x_main, x_writers>>

vars == <<vvars, svars, mvars, ivars, rvars, lvars, jvars, qvars, xvars>>

\* what the operations of one component leave alone
NotValidator == <<svars, mvars, ivars, rvars, lvars, jvars, qvars, xvars>>
NotStore == <<vvars, mvars, ivars, rvars, lvars, jvars, qvars, xvars>>
NotManifest == <<vvars, svars, ivars, rvars, lvars, jvars, qvars, xvars>>
NotImports == <<vvars, svars, mvars, rvars, lvars, jvars, qvars, xvars>>
NotEnsure == <<vvars, project_structure, s_op, s_raised, s_digest, s_reads, mvars, ivars, lvars, jvars, qvars, xvars>>
NotLoop == <<vvars, ivars, rvars, jvars, qvars, xvars>>
NotJson == <<vvars, svars, mvars, ivars, rvars, lvars, qvars, xvars>>
NotReader == <<vvars, svars, mvars, ivars, rvars, lvars, jvars, qvars>>
NotSimplify == <<vvars, svars, mvars, ivars, rvars, lvars, jvars, xvars>>

----------------------------------------------------------------------------
(* Bounds of the model *)

\* longest text (in tokens) a collaborator returns or a caller passes
MaxTextLen == 2
\* most diagnostics in one output of the checker
MaxDiag == 1
\* most files of one code-generation task
MaxTaskFiles == 1
\* most calls of get_context_prompt in a row that the model follows
MaxReads == 2
\* most declarations in one new_dependencies list
MaxDeps == 2
\* most calls of update_pubspec_yaml on one manifest
MaxMerges == 2
\* most lines of a Dart file handed to manage_dart_imports
MaxLines == 2
\* most entries of one imports_to_add list
MaxAdds == 1
\* most calls of manage_dart_imports on one file
MaxPasses == 2
\* most calls of ensure_correct_structure in one session
MaxRuns == 2
\* most tasks the user enters in one session
MaxTasks == 1
\* most steps of a plan handed to the simplifier
MaxSteps == 2
\* longest raw response (in characters, a fence counting as one) handed to a parser
MaxRawLen == 3
\* lines a pipe of the flutter run process holds before a write blocks
MaxPipe == 2
\* lines the flutter run process writes in all
MaxOutput == 4

----------------------------------------------------------------------------
(* Text *)

\* the absent text (None); it is no text of the model
NoText == <<"<none>">>

\* tokens of generated Dart text: two pieces of code, white space, and the
\* two markdown fences the sources strip
WS == " "
NL == "\n"
FENCE == "<fence>"
FENCE_DART == "<fence>dart"
Tokens == {"code", "alt", WS, FENCE, FENCE_DART}

RECURSIVE SeqsUpTo(_, _)
SeqsUpTo(S, n) ==
    IF n = 0 THEN {<<>>}
    ELSE LET shorter == SeqsUpTo(S, n - 1)
         IN  shorter \cup {Append(s, x) : s \in shorter, x \in S}

Texts == SeqsUpTo(Tokens, MaxTextLen)

\* str.strip(): leading and trailing white space removed
RECURSIVE lstrip(_)
lstrip(s) ==
    IF s # <<>> /\ Head(s) \in {WS, NL} THEN lstrip(Tail(s)) ELSE s

RECURSIVE rstrip(_)
rstrip(s) ==
    IF s # <<>> /\ s[Len(s)] \in {WS, NL} THEN rstrip(SubSeq(s, 1, Len(s) - 1)) ELSE s

strip(s) == rstrip(lstrip(s))

\* str.replace(tok, ""): every occurrence of the token removed
remove_token(s, tok) == SelectSeq(s, LAMBDA x : x # tok)

----------------------------------------------------------------------------
(* The structural checker (dart analyze) and its classification *)

critical_patterns ==
    { "Error:", "Compilation failed", "Undefined name",
      "The method .* isn't defined", "The class .* isn't defined",
      "Undefined class", "Invalid syntax", "Expected to find" }

\* diagnostics that match none of the critical patterns
NonCriticalDiagnostics == { "info - unused_import" }

Diagnostics == critical_patterns \cup NonCriticalDiagnostics

DiagOutputs == { d \in SUBSET Diagnostics : Cardinality(d) <= MaxDiag }

\* one run of the checker: it raises (no dart executable), or it ends with
\* a return code and an output
CheckerRuns ==
    [kind : {"ran"}, rc : {0, 1}, out : DiagOutputs]
        \cup {[kind |-> "raise", rc |-> 1, out |-> {}]}

NoRun == [kind |-> "none", rc |-> 0, critical |-> FALSE]

has_critical_errors(analysis_output) ==
    \E pattern \in critical_patterns : pattern \in analysis_output

\* a checker that takes every non-zero return code for a failure
validate_dart_code_any_issue(run) ==
    run.rc = 0

\* validate_dart_code of a run that did not raise
validate_dart_code(run) ==
    IF run.rc = 0 THEN TRUE
    ELSE IF has_critical_errors(run.out) THEN FALSE
    ELSE TRUE

\* what the call keeps of a run
Observed(run) ==
    [kind |-> run.kind, rc |-> run.rc, critical |-> has_critical_errors(run.out)]

----------------------------------------------------------------------------
(* The text-repair collaborator *)

\* a response of the text-generation client: a text, or an exception
Raise == <<"<raise>">>
Responses == Texts \cup {Raise}

\* FlutterProjectValidator.fix_dart_code
fix_dart_code(invalid_code, response) ==
    IF response = Raise THEN invalid_code
    ELSE strip(remove_token(remove_token(strip(response), FENCE_DART), FENCE))

----------------------------------------------------------------------------
(* FlutterProjectValidator.validate_and_fix_dart_code, step by step *)

VIdle ==
    /\ v_pc = "idle"
    /\ v_content = NoText /\ v_fixed = NoText
    /\ v_first = NoRun /\ v_second = NoRun
    /\ v_calls = <<>> /\ v_ret = NoText /\ v_raised = FALSE

\* the call is entered; with analysis skipped it returns at once
VCall(content) ==
    /\ v_pc \in {"idle", "done"}
    /\ v_content' = content
    /\ v_fixed' = NoText /\ v_first' = NoRun /\ v_second' = NoRun
    /\ v_calls' = <<>> /\ v_raised' = FALSE
    /\ IF SKIP_DART_ANALYSIS
       THEN v_pc' = "done" /\ v_ret' = content
       ELSE v_pc' = "check" /\ v_ret' = NoText
    /\ UNCHANGED SKIP_DART_ANALYSIS
    /\ UNCHANGED NotValidator

\* if not self.validate_dart_code(content)
VFirstCheck(run) ==
    /\ v_pc = "check"
    /\ v_calls' = Append(v_calls, "check")
    /\ v_first' = Observed(run)
    /\ IF run.kind = "raise"
       THEN v_pc' = "done" /\ v_raised' = TRUE /\ v_ret' = NoText
       ELSE IF validate_dart_code(run)
       THEN v_pc' = "done" /\ v_raised' = FALSE /\ v_ret' = v_content
       ELSE v_pc' = "repair" /\ v_raised' = FALSE /\ v_ret' = NoText
    /\ UNCHANGED <<SKIP_DART_ANALYSIS, v_content, v_fixed, v_second>>
    /\ UNCHANGED NotValidator

\* fixed_content = self.fix_dart_code(content, file_path)
VRepair(response) ==
    /\ v_pc = "repair"
    /\ v_calls' = Append(v_calls, "repair")
    /\ v_fixed' = fix_dart_code(v_content, response)
    /\ v_pc' = "recheck"
    /\ UNCHANGED <<SKIP_DART_ANALYSIS, v_content, v_first, v_second, v_ret, v_raised>>
    /\ UNCHANGED NotValidator

\* a call that keeps the repaired text whatever the second run says
second_check_keeps_fix(content, fixed_content, passed) ==
    fixed_content

\* what the call returns after the second run of the checker
second_check_result(content, fixed_content, passed) ==
    IF passed THEN fixed_content ELSE content

\* if self.validate_dart_code(fixed_content): return fixed_content else: return content
VSecondCheck(run) ==
    /\ v_pc = "recheck"
    /\ v_calls' = Append(v_calls, "check")
    /\ v_second' = Observed(run)
    /\ v_pc' = "done"
    /\ IF run.kind = "raise"
       THEN v_raised' = TRUE /\ v_ret' = NoText
       ELSE /\ v_raised' = FALSE
            /\ v_ret' = second_check_result(v_content, v_fixed, validate_dart_code(run))
    /\ UNCHANGED <<SKIP_DART_ANALYSIS, v_content, v_fixed, v_first>>
    /\ UNCHANGED NotValidator

ValidatorInit ==
    /\ SKIP_DART_ANALYSIS \in BOOLEAN
    /\ VIdle

NextValidate ==
    \/ \E content \in Texts : VCall(content)
    \/ \E run \in CheckerRuns : VFirstCheck(run)
    \/ \E response \in Responses : VRepair(response)
    \/ \E run \in CheckerRuns : VSecondCheck(run)


----------------------------------------------------------------------------
(* Paths and the project root *)

\* a relative path: its directories, and the file name split at the last dot
main_dart_path == [dirs |-> <<"lib">>, name |-> "main", ext |-> "dart"]
home_screen_path == [dirs |-> <<"lib", "screens">>, name |-> "home_screen", ext |-> "dart"]
pubspec_path == [dirs |-> <<>>, name |-> "pubspec", ext |-> "yaml"]

Paths == {main_dart_path, home_screen_path, pubspec_path}

\* file.endswith('.dart')
ends_with_dart(path) == path.ext = "dart"

\* the contents files of the project root hold
FileTexts == {<<"code">>, <<"alt">>}

\* the .dart files present under the root
dart_files_on(dsk) == {p \in Paths : dsk[p] # NoText /\ ends_with_dart(p)}

RECURSIVE Perms(_)
Perms(S) ==
    IF S = {} THEN {<<>>}
    ELSE UNION {{<<x>> \o rest : rest \in Perms(S \ {x})} : x \in S}

\* os.walk lists the files in an order the file system decides
WalkOrders(dsk) == Perms(dart_files_on(dsk))

----------------------------------------------------------------------------
(* ProjectContextManager *)

dict_keys(d) == {d[i].path : i \in DOMAIN d}

dict_get(d, path, default) ==
    IF path \in dict_keys(d)
    THEN (CHOOSE e \in {d[i] : i \in DOMAIN d} : e.path = path).content
    ELSE default

\* del d[path]
dict_del(d, path) == SelectSeq(d, LAMBDA e : e.path # path)

\* d[path] = content: an existing key keeps its place, a new key goes last
dict_set(d, path, content) ==
    IF path \in dict_keys(d)
    THEN [i \in DOMAIN d |-> IF d[i].path = path
                             THEN [path |-> path, content |-> content] ELSE d[i]]
    ELSE Append(d, [path |-> path, content |-> content])

\* update_context: both collections cleared and refilled from the walk
scanned_contents(dsk, order) ==
    [i \in 1..Len(order) |-> [path |-> order[i], content |-> dsk[order[i]]]]

scanned_structure(dsk, order) == order

\* one piece of the rendered context prompt
Lit(text) == [lit |-> text, path |-> pubspec_path, text |-> NoText]
PathPiece(path) == [lit |-> "", path |-> path, text |-> NoText]
TextPiece(text) == [lit |-> "", path |-> pubspec_path, text |-> text]

\* "\n".join(paths)
RECURSIVE join_paths(_)
join_paths(paths) ==
    IF paths = <<>> THEN <<>>
    ELSE IF Len(paths) = 1 THEN <<PathPiece(paths[1])>>
    ELSE <<PathPiece(paths[1]), Lit("\n")>> \o join_paths(Tail(paths))

RECURSIVE render_contents(_)
render_contents(d) ==
    IF d = <<>> THEN <<>>
    ELSE <<Lit("\n--- "), PathPiece(d[1].path), Lit(" ---\n"),
           TextPiece(d[1].content), Lit("\n")>> \o render_contents(Tail(d))

\* a rendering that consumes the listing while it renders it
get_context_prompt_draining(structure, contents) ==
    [ result |-> <<Lit("Project Structure:\n")>> \o join_paths(structure)
                    \o <<Lit("\n\nFile Contents:\n")>> \o render_contents(contents),
      project_structure |-> <<>>,
      file_contents |-> contents ]

\* get_context_prompt: the string returned, and the two collections after the call
get_context_prompt(structure, contents) ==
    [ result |-> <<Lit("Project Structure:\n")>> \o join_paths(structure)
                    \o <<Lit("\n\nFile Contents:\n")>> \o render_contents(contents),
      project_structure |-> structure,
      file_contents |-> contents ]

\* get_file_content: the tracked content, '' for a path the mapping lacks
get_file_content(contents, file_path) == dict_get(contents, file_path, <<>>)

NoDigest == <<>>

SGetContextPrompt ==
    /\ s_reads < MaxReads
    /\ LET r == get_context_prompt(project_structure, file_contents)
       IN  /\ s_digest' = r.result
           /\ project_structure' = r.project_structure
           /\ file_contents' = r.file_contents
    /\ s_reads' = s_reads + 1
    /\ s_op' = "get_context_prompt" /\ s_raised' = FALSE
    /\ UNCHANGED disk
    /\ UNCHANGED NotStore

SUpdateContext ==
    /\ \E order \in WalkOrders(disk) :
          /\ file_contents' = scanned_contents(disk, order)
          /\ project_structure' = scanned_structure(disk, order)
    /\ s_op' = "update_context" /\ s_raised' = FALSE
    /\ s_reads' = 0 /\ s_digest' = NoDigest
    /\ UNCHANGED disk
    /\ UNCHANGED NotStore

\* update_file: the file is written, then the whole root is scanned again
update_file(file_path, content) ==
    /\ disk' = [disk EXCEPT ![file_path] = content]
    /\ \E order \in WalkOrders(disk') :
          /\ file_contents' = scanned_contents(disk', order)
          /\ project_structure' = scanned_structure(disk', order)
    /\ s_op' = "update_file" /\ s_raised' = FALSE

SUpdateFile(file_path, content) ==
    /\ update_file(file_path, content)
    /\ s_reads' = 0 /\ s_digest' = NoDigest
    /\ UNCHANGED NotStore

\* delete_file: the module defines no logger, so logger.info / logger.warning
\* raises NameError, the handler's logger.error raises it again, the finally
\* clause scans the root, and the NameError reaches the caller
delete_file(file_path) ==
    /\ disk' = [disk EXCEPT ![file_path] = NoText]
    /\ \E order \in WalkOrders(disk') :
          /\ file_contents' = scanned_contents(disk', order)
          /\ project_structure' = scanned_structure(disk', order)
    /\ s_op' = "delete_file" /\ s_raised' = TRUE

SDeleteFile(file_path) ==
    /\ delete_file(file_path)
    /\ s_reads' = 0 /\ s_digest' = NoDigest
    /\ UNCHANGED NotStore

\* clean_dart_code: the fences removed, then white space trimmed
clean_dart_code(code) == strip(remove_token(remove_token(code, FENCE_DART), FENCE))

\* what the text-generation client answers to a file prompt
GenResponses == {<<"code">>, <<FENCE_DART, "alt", FENCE>>, <<WS>>, Raise}

\* the files of a task, in order, without repetition
TaskFileLists == {fs \in SeqsUpTo(Paths, MaxTaskFiles) :
                    fs # <<>> /\ \A i, j \in DOMAIN fs : i # j => fs[i] # fs[j]}

\* the loop of generate_code over task['files']: each answer is cleaned and
\* written when it is not empty; an exception of the client ends the loop
RECURSIVE write_generated(_, _, _)
write_generated(dsk, files, answers) ==
    IF files = <<>> THEN dsk
    ELSE IF answers[1] = Raise THEN dsk
    ELSE LET updated_content == clean_dart_code(strip(answers[1]))
             written == IF updated_content # <<>>
                        THEN [dsk EXCEPT ![files[1]] = updated_content]
                        ELSE dsk
         IN  write_generated(written, Tail(files), Tail(answers))

\* code_generation.generate_code: the files are written straight to disk; the
\* call of ensure_correct_structure that follows names a function the module
\* never imports, so it raises NameError before update_context is reached
SGenerateCode(files, answers) ==
    /\ LET r == get_context_prompt(project_structure, file_contents)
       IN  /\ project_structure' = r.project_structure
           /\ file_contents' = r.file_contents
    /\ disk' = write_generated(disk, files, answers)
    /\ s_op' = "generate_code" /\ s_raised' = TRUE
    /\ s_reads' = 0 /\ s_digest' = NoDigest
    /\ UNCHANGED NotStore

\* ProjectContextManager.__init__ over an existing project root
StoreInit ==
    /\ disk \in [Paths -> FileTexts \cup {NoText}]
    /\ \E order \in WalkOrders(disk) :
          /\ file_contents = scanned_contents(disk, order)
          /\ project_structure = scanned_structure(disk, order)
    /\ s_op = "init" /\ s_raised = FALSE /\ s_digest = NoDigest /\ s_reads = 0

NextStore ==
    \/ SGetContextPrompt
    \/ SUpdateContext
    \/ \E file_path \in Paths, content \in FileTexts : SUpdateFile(file_path, content)
    \/ \E file_path \in Paths : SDeleteFile(file_path)
    \/ \E files \in TaskFileLists :
          \E answers \in [1..Len(files) -> GenResponses] : SGenerateCode(files, answers)

\* a store over an empty project root that nothing touches
StoreIdle ==
    /\ disk = [p \in Paths |-> NoText]
    /\ file_contents = <<>> /\ project_structure = <<>>
    /\ s_op = "init" /\ s_raised = FALSE /\ s_digest = NoDigest /\ s_reads = 0

----------------------------------------------------------------------------
(* pubspec.yaml and TaskPlanner.update_pubspec_yaml *)

\* a line of the manifest: a section header, a line of the flutter sdk entry,
\* a "  name: version" line, a blank line, or any other line
Ln(kind) == [kind |-> kind, pkg |-> "", ver |-> ""]
DepLn(pkg, ver) == [kind |-> "dep", pkg |-> pkg, ver |-> ver]

PackageNames == {"http", "provider"}
Versions == {"^0.13.0", "^1.0.0"}

\* a declaration of new_dependencies; a missing key reads as ''
DepDecls == [package_name : PackageNames \cup {"flutter", ""}, version : Versions \cup {""}]

\* the lines holding the text 'dependencies:' ('dev_dependencies:' ends with it)
holds_dependencies(line) == line.kind \in {"deps_header", "dev_header"}

\* dependencies_section, built from the new declarations alone
RECURSIVE dependency_lines(_)
dependency_lines(new_dependencies) ==
    IF new_dependencies = <<>> THEN <<>>
    ELSE LET dep == Head(new_dependencies)
             keep == dep.package_name # "" /\ dep.version # ""
                        /\ dep.package_name \notin {"flutter", "dart"}
         IN  (IF keep THEN <<DepLn(dep.package_name, dep.version)>> ELSE <<>>)
                \o dependency_lines(Tail(new_dependencies))

dependencies_section(new_dependencies) ==
    <<Ln("flutter"), Ln("sdk")>> \o dependency_lines(new_dependencies)

\* re.sub(r'dependencies:.*?dev_dependencies:', section + '\ndev_dependencies:',
\* content, flags=re.DOTALL): the leftmost 'dependencies:' up to the nearest
\* 'dev_dependencies:' after it is replaced, then the search goes on behind it.
\* A match that starts inside 'dev_dependencies:' leaves the 'dev_' before it,
\* so the line that starts the replacement still reads as it did.
RECURSIVE re_sub_dependencies(_, _)
re_sub_dependencies(content, section) ==
    LET starts == {i \in DOMAIN content : holds_dependencies(content[i])}
    IN  IF starts = {} THEN content
        ELSE LET i == CHOOSE k \in starts : \A l \in starts : k <= l
                 ends == {j \in DOMAIN content : j > i /\ content[j].kind = "dev_header"}
             IN  IF ends = {} THEN content
                 ELSE LET j == CHOOSE k \in ends : \A l \in ends : k <= l
                      IN  SubSeq(content, 1, i) \o section
                             \o <<Ln("blank"), Ln("dev_header")>>
                             \o re_sub_dependencies(SubSeq(content, j + 1, Len(content)), section)

\* update_pubspec_yaml, on a manifest that exists
update_pubspec_yaml(content, new_dependencies) ==
    re_sub_dependencies(content, dependencies_section(new_dependencies))

\* the lines of the primary section: after the first 'dependencies:' header,
\* up to the next section header
primary_section(content) ==
    LET heads == {i \in DOMAIN content : content[i].kind = "deps_header"}
    IN  IF heads = {} THEN <<>>
        ELSE LET i == CHOOSE k \in heads : \A l \in heads : k <= l
                 stops == {j \in DOMAIN content :
                              j > i /\ content[j].kind \in {"deps_header", "dev_header", "other"}}
                 j == IF stops = {} THEN Len(content) + 1
                      ELSE CHOOSE k \in stops : \A l \in stops : k <= l
             IN  SubSeq(content, i + 1, j - 1)

has_primary_section(content) == \E i \in DOMAIN content : content[i].kind = "deps_header"

\* the declarations a list applies, as package -> version, the last one winning
RECURSIVE applied(_, _)
applied(declared, lines) ==
    IF lines = <<>> THEN declared
    ELSE applied([declared EXCEPT ![Head(lines).pkg] = Head(lines).ver], Tail(lines))

\* the manifests the model starts from: a head line, the primary section with
\* the flutter sdk entry and some packages, then a dev section or none; or the
\* dev section first
PrimaryDeps == {<<>>, <<DepLn("http", "^0.13.0")>>,
                <<DepLn("http", "^0.13.0"), DepLn("provider", "^0.13.0")>>}

Manifests ==
    UNION { { <<Ln("other"), Ln("deps_header"), Ln("flutter"), Ln("sdk")>> \o deps
                 \o <<Ln("blank"), Ln("dev_header"), DepLn("flutter_test", "^1.0.0"), Ln("other")>>,
              <<Ln("other"), Ln("deps_header"), Ln("flutter"), Ln("sdk")>> \o deps
                 \o <<Ln("blank"), Ln("other")>>,
              <<Ln("other"), Ln("dev_header"), DepLn("flutter_test", "^1.0.0"), Ln("blank"),
                Ln("deps_header"), Ln("flutter"), Ln("sdk")>> \o deps \o <<Ln("other")>> }
            : deps \in PrimaryDeps }

NewDependencyLists == SeqsUpTo(DepDecls, MaxDeps)

MUpdatePubspec(new_dependencies) ==
    /\ m_merges < MaxMerges
    /\ pubspec_yaml' = update_pubspec_yaml(pubspec_yaml, new_dependencies)
    /\ m_declared' = applied(m_declared, dependency_lines(new_dependencies))
    /\ m_new' = new_dependencies
    /\ m_merges' = m_merges + 1
    /\ UNCHANGED NotManifest

NoDeclarations == [p \in PackageNames |-> ""]

ManifestInit ==
    /\ pubspec_yaml \in Manifests
    /\ m_declared = applied(NoDeclarations, SelectSeq(primary_section(pubspec_yaml),
                                                      LAMBDA l : l.kind = "dep"))
    /\ m_new = <<>>
    /\ m_merges = 0

\* a manifest nothing touches
ManifestIdle ==
    /\ pubspec_yaml = <<>> /\ m_declared = NoDeclarations /\ m_new = <<>> /\ m_merges = 0

NextManifest == \E new_dependencies \in NewDependencyLists : MUpdatePubspec(new_dependencies)

----------------------------------------------------------------------------
(* manage_dart_imports *)

\* The lines of a Dart file, in the order Python compares strings: a line with
\* leading blanks sorts before "import ...", and "import 'a" before "importa".
IMPORT_A_INDENTED == "  import 'a.dart';"
IMPORT_A == "import 'a.dart';"
IMPORT_B == "import 'b.dart';"
IMPORTANT == "important();"
BLANK == ""
MAIN_FN == "void main() {}"

LineOrder == <<BLANK, IMPORT_A_INDENTED, IMPORT_A, IMPORT_B, IMPORTANT, MAIN_FN>>
Lines == {LineOrder[k] : k \in DOMAIN LineOrder}
line_rank(line) == CHOOSE k \in DOMAIN LineOrder : LineOrder[k] = line

\* line.strip().startswith('import')
is_import_line(line) == line \in {IMPORT_A_INDENTED, IMPORT_A, IMPORT_B, IMPORTANT}

\* import_to_add in line, for the statements that are asked for
is_in_line(import_to_add, line) ==
    \/ line = import_to_add
    \/ import_to_add = IMPORT_A /\ line = IMPORT_A_INDENTED

\* sorted(import_lines)
RECURSIVE sorted(_)
sorted(lines) ==
    IF lines = <<>> THEN <<>>
    ELSE LET least == CHOOSE k \in DOMAIN lines :
                          \A l \in DOMAIN lines : line_rank(lines[k]) <= line_rank(lines[l])
         IN  <<lines[least]>>
                \o sorted(SubSeq(lines, 1, least - 1) \o SubSeq(lines, least + 1, Len(lines)))

RECURSIVE add_imports(_, _)
add_imports(import_lines, imports_to_add) ==
    IF imports_to_add = <<>> THEN import_lines
    ELSE LET import_to_add == Head(imports_to_add)
             present == \E k \in DOMAIN import_lines : is_in_line(import_to_add, import_lines[k])
         IN  add_imports(IF present THEN import_lines ELSE Append(import_lines, import_to_add),
                         Tail(imports_to_add))

\* content.split('\n') is never empty, and '\n'.join of the result splits back
\* into the same lines, so a text is kept as its lines
manage_dart_imports(lines, imports_to_add) ==
    LET import_lines == SelectSeq(lines, is_import_line)
        code_lines == SelectSeq(lines, LAMBDA line : ~is_import_line(line))
    IN  sorted(add_imports(import_lines, imports_to_add)) \o <<BLANK>> \o code_lines

DartFiles == SeqsUpTo(Lines, MaxLines) \ {<<>>}
ImportLists == SeqsUpTo({IMPORT_A, IMPORT_B}, MaxAdds)

\* project_files[file_path] = manage_dart_imports(file_path, imports_to_add, project_files)
IManageImports(imports_to_add) ==
    /\ i_passes < MaxPasses
    /\ i_before' = i_text
    /\ i_text' = manage_dart_imports(i_text, imports_to_add)
    /\ i_adds' = <<imports_to_add, i_adds[1]>>
    /\ i_passes' = i_passes + 1
    /\ UNCHANGED NotImports

ImportsInit ==
    /\ i_text \in DartFiles
    /\ i_before = i_text
    /\ i_adds = <<<<>>, <<>>>>
    /\ i_passes = 0

ImportsIdle ==
    /\ i_text = <<BLANK>> /\ i_before = <<BLANK>> /\ i_adds = <<<<>>, <<>>>> /\ i_passes = 0

NextImports == \E imports_to_add \in ImportLists : IManageImports(imports_to_add)

----------------------------------------------------------------------------
(* ensure_correct_structure and its update_main_dart *)

cart_provider_path == [dirs |-> <<"lib", "providers">>, name |-> "cart_provider", ext |-> "dart"]

\* the files a call of ensure_correct_structure sees
StructurePaths == {main_dart_path, home_screen_path, cart_provider_path, pubspec_path}

\* path.startswith('lib/<dir>/')
starts_with_lib(path, dir) == Len(path.dirs) >= 2 /\ path.dirs[1] = "lib" /\ path.dirs[2] = dir

\* ''.join(word.capitalize() for word in name.split('_')) of the file's base name
class_of(path) ==
    CASE path.name = "home_screen" -> "HomeScreen"
      [] path.name = "cart_provider" -> "CartProvider"
      [] OTHER -> "Main"

\* f"/{screen_name.replace('_screen', '')}"
route_of(path) == IF path.name = "home_screen" THEN "/home" ELSE "/main"

\* the text f"class {widget_name}" that starts the pattern of step 3
class_marker(widget_name) == IF widget_name = "HomeScreen" THEN "class HomeScreen" ELSE "class CartProvider"

\* the pieces of text that hold widget_name
holders(widget_name) ==
    IF widget_name = "HomeScreen"
    THEN {"class HomeScreen", "class HomeScreenState", "HomeScreen()"}
    ELSE {"class CartProvider", "CartProvider()"}

\* the pieces of text the pattern of step 3 starts to match at: the pattern
\* has no word boundary after the name
marked_by(widget_name) ==
    IF widget_name = "HomeScreen" THEN {class_marker(widget_name), "class HomeScreenState"}
    ELSE {class_marker(widget_name)}

\* the entry file a Flutter project starts with, and one into which the
\* generator has copied the definition of a screen
MainDart == <<"import", NL, "class MyApp", "{", "Widget build", "MaterialApp", "}", NL>>
EntryTexts ==
    {MainDart,
     MainDart \o <<"class HomeScreen", "{", "}", NL>>,
     MainDart \o <<"class HomeScreen", "{", "Widget build", "{", "}", "}", NL>>,
     MainDart \o <<"class HomeScreenState", "{", "}", NL>>}

\* re.sub(f"class {widget_name}.*?}}\n?", "", main_content, flags=re.DOTALL):
\* from the class marker to the first closing brace after it, and a line end
RECURSIVE re_sub_class(_, _)
re_sub_class(widget_name, main_content) ==
    LET starts == {k \in DOMAIN main_content : main_content[k] \in marked_by(widget_name)}
    IN  IF starts = {} THEN main_content
        ELSE LET i == CHOOSE k \in starts : \A l \in starts : k <= l
                 ends == {j \in DOMAIN main_content : j > i /\ main_content[j] = "}"}
             IN  IF ends = {} THEN main_content
                 ELSE LET j == CHOOSE k \in ends : \A l \in ends : k <= l
                          stop == IF j < Len(main_content) /\ main_content[j + 1] = NL
                                  THEN j + 1 ELSE j
                      IN  SubSeq(main_content, 1, i - 1)
                             \o re_sub_class(widget_name,
                                             SubSeq(main_content, stop + 1, Len(main_content)))

\* step 3: for widget_name, file_path in task_context.created_widgets.items()
RECURSIVE remove_duplicates(_, _)
remove_duplicates(widgets, main_content) ==
    IF widgets = <<>> THEN main_content
    ELSE LET widget_name == Head(widgets).path
             file_path == Head(widgets).content
             named == \E k \in DOMAIN main_content : main_content[k] \in holders(widget_name)
         IN  remove_duplicates(Tail(widgets),
                               IF named /\ file_path # main_dart_path
                               THEN re_sub_class(widget_name, main_content)
                               ELSE main_content)

None == "<None>"

\* steps 4 and 5: what the screen and provider files of project_files add
keys_under(project_files, dir) ==
    SelectSeq([k \in DOMAIN project_files |-> project_files[k].path],
              LAMBDA path : starts_with_lib(path, dir))

\* task_context.add_widget(screen_class, screen_path) for every screen file
RECURSIVE add_widgets(_, _)
add_widgets(widgets, screen_files) ==
    IF screen_files = <<>> THEN widgets
    ELSE add_widgets(dict_set(widgets, class_of(Head(screen_files)), Head(screen_files)),
                     Tail(screen_files))

\* task_context.add_route(route_name, screen_class) for every screen file
RECURSIVE add_routes(_, _)
add_routes(rts, screen_files) ==
    IF screen_files = <<>> THEN rts
    ELSE add_routes(dict_set(rts, route_of(Head(screen_files)), class_of(Head(screen_files))),
                    Tail(screen_files))

\* analysis["main_dart_updates"] as steps 2, 4 and 5 leave it
main_dart_updates(screen_files, provider_files, rts) ==
    [ imports_to_add |-> screen_files \o provider_files,
      routes_to_add |-> add_routes(<<>>, screen_files),
      initial_route |-> IF rts # <<>> THEN rts[Len(rts)].path ELSE None,
      providers_to_initialize |-> [k \in DOMAIN provider_files |-> class_of(provider_files[k])] ]

NoUpdates ==
    [imports_to_add |-> <<>>, routes_to_add |-> <<>>, initial_route |-> None,
     providers_to_initialize |-> <<>>]

\* any(analysis["main_dart_updates"].values())
any_update(updates) ==
    \/ updates.imports_to_add # <<>> \/ updates.routes_to_add # <<>>
    \/ updates.initial_route # None \/ updates.providers_to_initialize # <<>>

\* the fences cut off a response: the text behind the last dart fence, or
\* else behind the first fence, up to the next fence
strip_fences(code) ==
    LET darts == {k \in DOMAIN code : code[k] = FENCE_DART}
        fences == {k \in DOMAIN code : code[k] \in {FENCE, FENCE_DART}}
    IN  IF fences = {} THEN code
        ELSE LET a == IF darts # {} THEN CHOOSE k \in darts : \A l \in darts : k >= l
                      ELSE CHOOSE k \in fences : \A l \in fences : k <= l
                 rest == SubSeq(code, a + 1, Len(code))
                 stops == {k \in DOMAIN rest : rest[k] \in {FENCE, FENCE_DART}}
             IN  IF stops = {} THEN rest
                 ELSE SubSeq(rest, 1, (CHOOSE k \in stops : \A l \in stops : k <= l) - 1)

\* the basic validation of update_main_dart
passes_gate(code) ==
    \A needle \in {"import", "MaterialApp", "class MyApp", "Widget build"} :
        \E k \in DOMAIN code : code[k] = needle

\* a merge that stores whatever the collaborator answered
project_files_after_ungated(project_files, code) ==
    dict_set(project_files, main_dart_path, strip(code))

\* project_files after an attempt of update_main_dart that got an answer
project_files_after(project_files, code) ==
    IF passes_gate(code) THEN dict_set(project_files, main_dart_path, strip(code))
    ELSE project_files

\* what the collaborator may answer to the merge prompt: the merged file, bare
\* or fenced, a file without the application widget, prose, nothing, an error
MergedDart == <<"import", NL, "class MyApp", "{", "Widget build", "MaterialApp", "routes", "}", NL>>
MergeResponses ==
    { MergedDart, <<FENCE_DART, NL>> \o MergedDart \o <<FENCE>>,
      <<"prose", FENCE>> \o MergedDart \o <<FENCE, "prose">>,
      <<"import", NL, "class MyApp", "{", "Widget build", "}">>,
      <<"prose">>, <<>>, Raise }

\* what a run of dart analyze on a temporary file comes to
CheckOutcomes == {"pass", "fail", "raise"}

\* what the collaborator may answer to the repair prompt of step 8
RepairResponses == {<<"code">>, <<FENCE_DART, NL, "code", NL, FENCE>>, Raise}

\* the call: steps 1 to 5, and the decision of step 6
REnsureStructure ==
    /\ r_pc \in {"idle", "returned", "raised"}
    /\ r_runs < MaxRuns
    /\ LET screen_files == keys_under(file_contents, "screens")
           provider_files == keys_under(file_contents, "providers")
           deduped == IF main_dart_path \in dict_keys(file_contents)
                      THEN dict_set(file_contents, main_dart_path,
                                    remove_duplicates(created_widgets,
                                                      dict_get(file_contents, main_dart_path, <<>>)))
                      ELSE file_contents
           rts == add_routes(routes, screen_files)
           updates == main_dart_updates(screen_files, provider_files, rts)
       IN  /\ file_contents' = deduped
           /\ created_widgets' = add_widgets(created_widgets, screen_files)
           /\ routes' = rts
           /\ r_updates' = updates
           /\ r_dependencies' = [k \in DOMAIN provider_files |-> "provider: ^6.0.0"]
           /\ r_before' = [memory |-> dict_get(deduped, main_dart_path, <<>>),
                           disk |-> disk[main_dart_path]]
           /\ r_pc' = IF any_update(updates) THEN "merge" ELSE "dependencies"
    /\ r_attempt' = 0 /\ r_accepted' = FALSE /\ r_idx' = 0 /\ r_runs' = r_runs + 1
    /\ UNCHANGED disk
    /\ UNCHANGED NotEnsure

\* one attempt of update_main_dart: the collaborator answers, the answer is
\* cut, checked and, if it passes, stored and written (the write may fail)
RMergeAttempt(response, written) ==
    /\ r_pc = "merge"
    /\ LET failed == response = Raise
           code == IF failed THEN <<>> ELSE strip_fences(response)
           gate == ~failed /\ passes_gate(code)
       IN  /\ file_contents' = IF failed THEN file_contents
                               ELSE project_files_after(file_contents, code)
           /\ disk' = IF gate /\ written THEN [disk EXCEPT ![main_dart_path] = strip(code)]
                      ELSE disk
           /\ r_accepted' = (r_accepted \/ gate)
           /\ r_pc' = IF (gate /\ written) \/ r_attempt + 1 = 3 THEN "dependencies" ELSE "merge"
    /\ r_attempt' = r_attempt + 1
    /\ UNCHANGED <<created_widgets, routes, r_updates, r_dependencies, r_before, r_idx, r_runs>>
    /\ UNCHANGED NotEnsure

\* step 7: update_pubspec_yaml of this module, which needs the manifest among
\* project_files
RDependencies(response) ==
    /\ r_pc = "dependencies"
    /\ IF r_dependencies = <<>> \/ pubspec_path \notin dict_keys(file_contents)
       THEN /\ r_pc' = IF file_contents = <<>> THEN "returned" ELSE "validate"
            /\ UNCHANGED <<file_contents, disk>>
       ELSE IF response = Raise
       THEN /\ r_pc' = "raised"
            /\ UNCHANGED <<file_contents, disk>>
       ELSE /\ r_pc' = "validate"
            /\ file_contents' = dict_set(file_contents, pubspec_path, strip(response))
            /\ disk' = [disk EXCEPT ![pubspec_path] = strip(response)]
    /\ UNCHANGED <<created_widgets, routes, r_updates, r_dependencies, r_attempt, r_accepted,
                   r_before, r_idx, r_runs>>
    /\ UNCHANGED NotEnsure

\* step 8, for one file of project_files: check, and on a failure repair,
\* check again and keep the repair if it passes; an error of the checker or
\* of the collaborator leaves the call
RValidateFile(first, response, second) ==
    /\ r_pc = "validate"
    /\ r_idx < Len(file_contents)
    /\ LET entry == file_contents[r_idx + 1]
           checked == ends_with_dart(entry.path) /\ entry.path.dirs # <<>>
                         /\ entry.path.dirs[1] = "lib"
           fixed == strip(remove_token(remove_token(strip(response), FENCE_DART), FENCE))
           next == IF r_idx + 1 = Len(file_contents) THEN "returned" ELSE "validate"
       IN  IF ~checked \/ first = "pass"
           THEN r_pc' = next /\ UNCHANGED <<file_contents, disk>>
           ELSE IF first = "raise" \/ response = Raise \/ second = "raise"
           THEN r_pc' = "raised" /\ UNCHANGED <<file_contents, disk>>
           ELSE IF second = "pass"
           THEN /\ r_pc' = next
                /\ file_contents' = dict_set(file_contents, entry.path, fixed)
                /\ disk' = [disk EXCEPT ![entry.path] = fixed]
           ELSE r_pc' = next /\ UNCHANGED <<file_contents, disk>>
    /\ r_idx' = r_idx + 1
    /\ UNCHANGED <<created_widgets, routes, r_updates, r_dependencies, r_attempt, r_accepted,
                   r_before, r_runs>>
    /\ UNCHANGED NotEnsure

\* between two calls a task deletes the screen file: the delete_file step of
\* the task loop removes it and update_context reads the project again
RRemoveScreen ==
    /\ r_pc \in {"returned", "raised"}
    /\ r_runs < MaxRuns
    /\ disk[home_screen_path] # NoText
    /\ disk' = [disk EXCEPT ![home_screen_path] = NoText]
    /\ file_contents' = scanned_contents(disk',
           SelectSeq(<<main_dart_path, home_screen_path, cart_provider_path>>,
                     LAMBDA p : disk'[p] # NoText))
    /\ UNCHANGED rvars
    /\ UNCHANGED NotEnsure

NoSnapshot == [memory |-> <<>>, disk |-> NoText]

EnsureIdle ==
    /\ r_pc = "idle" /\ created_widgets = <<>> /\ routes = <<>>
    /\ r_updates = NoUpdates /\ r_dependencies = <<>>
    /\ r_attempt = 0 /\ r_accepted = FALSE /\ r_before = NoSnapshot /\ r_idx = 0 /\ r_runs = 0

\* a project as the store has loaded it, and a task context some earlier
\* tasks may have filled
EnsureInit ==
    /\ \E main \in EntryTexts \cup {NoText}, screen, provider \in {NoText, <<"code">>} :
          disk = [p \in StructurePaths |->
                     IF p = main_dart_path THEN main
                     ELSE IF p = home_screen_path THEN screen
                     ELSE IF p = cart_provider_path THEN provider ELSE <<"code">>]
    /\ file_contents = scanned_contents(disk,
           SelectSeq(<<main_dart_path, home_screen_path, cart_provider_path>>,
                     LAMBDA p : disk[p] # NoText))
    /\ project_structure = <<>> /\ s_op = "init" /\ s_raised = FALSE
    /\ s_digest = NoDigest /\ s_reads = 0
    /\ created_widgets \in {<<>>, <<[path |-> "HomeScreen", content |-> home_screen_path]>>,
                            <<[path |-> "HomeScreen", content |-> main_dart_path]>>}
    /\ routes \in {<<>>, <<[path |-> "/login", content |-> "LoginScreen"]>>}
    /\ r_pc = "idle" /\ r_updates = NoUpdates /\ r_dependencies = <<>>
    /\ r_attempt = 0 /\ r_accepted = FALSE /\ r_before = NoSnapshot /\ r_idx = 0 /\ r_runs = 0

NextEnsure ==
    \/ REnsureStructure
    \/ RRemoveScreen
    \/ \E response \in MergeResponses, written \in BOOLEAN : RMergeAttempt(response, written)
    \/ \E response \in MergeResponses : RDependencies(response)
    \/ \E first, second \in CheckOutcomes, response \in RepairResponses :
          RValidateFile(first, response, second)

----------------------------------------------------------------------------
(* TaskPlanner: the plan a response parses to, its validation and reduction *)

\* a planner that tries once more
max_retries_more == 3 + 1

\* self.max_retries
max_retries == 3

TopKeys == {"steps", "update_main_dart", "dependencies"}

\* a path no file of the model lies at
utils_path == [dirs |-> <<"lib", "utils">>, name |-> "helpers", ext |-> "dart"]

Step(type, file_path) == [type |-> type, file_path |-> file_path, description |-> "d"]

\* the plans the collaborator is followed through, when it answers a dict
\* with the three keys and values of the right types
BasePlans ==
    { [ steps |-> <<Step("create_file", home_screen_path)>>,
        update_main_dart |->
            [NoUpdates EXCEPT !.imports_to_add = <<"screens/home_screen.dart">>,
                              !.routes_to_add = <<[path |-> "/home", content |-> "HomeScreen()"]>>,
                              !.initial_route = "/home"],
        dependencies |-> <<>> ],
      [ steps |-> <<Step("update_file", main_dart_path)>>,
        update_main_dart |-> NoUpdates,
        dependencies |-> <<[package_name |-> "http", version |-> "^1.0.0"]>> ],
      [ steps |-> <<Step("delete_file", home_screen_path)>>,
        update_main_dart |-> NoUpdates, dependencies |-> <<>> ],
      [ steps |-> <<Step("create_file", utils_path)>>,
        update_main_dart |->
            [NoUpdates EXCEPT !.routes_to_add = <<[path |-> "/home", content |-> "HomeScreen()"]>>],
        dependencies |-> <<[package_name |-> "flutter", version |-> "^1.0.0"]>> ],
      [ steps |-> <<Step("rename_file", home_screen_path), Step("update_file", home_screen_path)>>,
        update_main_dart |-> [NoUpdates EXCEPT !.providers_to_initialize = <<"CartProvider">>],
        dependencies |-> <<>> ],
      [ steps |-> <<>>,
        update_main_dart |-> [NoUpdates EXCEPT !.initial_route = "/home"],
        dependencies |-> <<>> ],
      [ steps |-> <<Step("update_file", main_dart_path)>>,
        update_main_dart |-> [NoUpdates EXCEPT !.initial_route = "/home"],
        dependencies |-> <<>> ] }

\* What extract_json returns: any JSON value. A dict is kept by the required
\* keys it has and their values (a value of the wrong type by a flag); a list
\* or a string by the required key names it holds; extra tells an empty
\* value from one with other content, and 0 from another number.
PlanValues ==
    { [ kind |-> "dict", has |-> has, extra |-> has = {} /\ flag,
        steps_is_list |-> "steps" \notin has \/ flag,
        steps |-> IF "steps" \in has /\ flag THEN base.steps ELSE <<>>,
        main_is_dict |-> "update_main_dart" \notin has \/ typed,
        update_main_dart |-> IF "update_main_dart" \in has /\ typed
                             THEN base.update_main_dart ELSE NoUpdates,
        deps_is_list |-> "dependencies" \notin has \/ typed,
        dependencies |-> IF "dependencies" \in has /\ typed
                         THEN base.dependencies ELSE <<>> ] :
        base \in BasePlans, has \in SUBSET TopKeys, flag \in BOOLEAN, typed \in BOOLEAN }
    \cup [ kind : {"list", "str"}, has : {{}, TopKeys}, extra : BOOLEAN,
           steps_is_list : {TRUE}, steps : {<<>>}, main_is_dict : {TRUE},
           update_main_dart : {NoUpdates}, deps_is_list : {TRUE}, dependencies : {<<>>} ]
    \cup [ kind : {"num", "null"}, has : {{}}, extra : BOOLEAN,
           steps_is_list : {TRUE}, steps : {<<>>}, main_is_dict : {TRUE},
           update_main_dart : {NoUpdates}, deps_is_list : {TRUE}, dependencies : {<<>>} ]

\* bool(task_plan)
truthy(plan) ==
    CASE plan.kind = "null" -> FALSE
      [] plan.kind = "num" -> plan.extra
      [] OTHER -> plan.has # {} \/ plan.extra

\* a validation that asks for the steps alone
validate_task_plan_steps_only(plan) ==
    IF plan.kind # "dict" THEN "raise"
    ELSE IF "steps" \notin plan.has THEN "reject"
    ELSE IF ~plan.steps_is_list \/ plan.steps = <<>> THEN "reject"
    ELSE "accept"

\* TaskPlanner.validate_task_plan: True, False, or a TypeError ("key in
\* task_plan" on a number or None, task_task_plan['steps'] on a list or a string)
validate_task_plan(plan) ==
    IF plan.kind \in {"num", "null"} THEN "raise"
    ELSE IF plan.has # TopKeys THEN "reject"
    ELSE IF plan.kind # "dict" THEN "raise"
    ELSE IF ~plan.steps_is_list \/ plan.steps = <<>> THEN "reject"
    ELSE IF ~plan.main_is_dict THEN "reject"
    ELSE IF ~plan.deps_is_list THEN "reject"
    ELSE "accept"

\* TaskReviewManager.validate_task_plan, which turns every exception into False
review_validate_task_plan(plan) ==
    /\ plan.kind = "dict" /\ plan.has = TopKeys
    /\ plan.steps_is_list
    /\ \A k \in DOMAIN plan.steps :
          plan.steps[k].type \in {"create_file", "update_file", "delete_file"}
    /\ plan.main_is_dict

\* a path under a directory whose name ends with "test"
latest_path == [dirs |-> <<"lib", "latest">>, name |-> "news", ext |-> "dart"]

\* whether the text "<dir>/" lies in "<name>/"
dir_text_in(dir, name) == name = dir \/ (dir = "test" /\ name = "latest")

\* "<dir>/" in step["file_path"]: the text is looked for anywhere in the path
under(file_path, dir) == \E k \in DOMAIN file_path.dirs : dir_text_in(dir, file_path.dirs[k])

is_step_necessary(step) ==
    IF step.type = "create_file" /\ under(step.file_path, "screens") THEN TRUE
    ELSE IF step.file_path = main_dart_path THEN TRUE
    ELSE IF under(step.file_path, "test") THEN FALSE
    ELSE IF under(step.file_path, "utils") \/ under(step.file_path, "helpers") THEN FALSE
    ELSE TRUE

\* a simplifier that takes every declaration for essential
is_dependency_necessary_any(dependency) == TRUE

is_dependency_necessary(dependency) ==
    dependency.package_name \in {"provider", "shared_preferences", "http"}

\* TaskPlanner._simplify_plan of a plan that validate_task_plan accepted
simplify_plan(plan) ==
    LET main_updates == plan.update_main_dart
    IN  [ steps |-> SelectSeq(plan.steps, is_step_necessary),
          update_main_dart |->
              [ imports_to_add |-> main_updates.imports_to_add,
                routes_to_add |-> IF main_updates.initial_route # None
                                  THEN main_updates.routes_to_add ELSE <<>>,
                initial_route |-> main_updates.initial_route,
                providers_to_initialize |-> <<>> ],
          dependencies |-> SelectSeq(plan.dependencies, is_dependency_necessary) ]

NoPlan == [steps |-> <<>>, update_main_dart |-> NoUpdates, dependencies |-> <<>>]
NoValue == [kind |-> "none", has |-> {}]

----------------------------------------------------------------------------
(* development_loop *)

\* remove_code_markers: a dart fence with the white space behind it and a
\* fence with the white space before it removed, then the text trimmed
RECURSIVE drop_dart_fences(_)
drop_dart_fences(s) ==
    IF s = <<>> THEN <<>>
    ELSE IF Head(s) = FENCE_DART THEN drop_dart_fences(lstrip(Tail(s)))
    ELSE <<Head(s)>> \o drop_dart_fences(Tail(s))

RECURSIVE drop_fences(_)
drop_fences(s) ==
    IF s = <<>> THEN <<>>
    ELSE IF s[Len(s)] = FENCE THEN drop_fences(rstrip(SubSeq(s, 1, Len(s) - 1)))
    ELSE Append(drop_fences(SubSeq(s, 1, Len(s) - 1)), s[Len(s)])

remove_code_markers(content) == strip(drop_fences(drop_dart_fences(content)))

\* validate_and_fix_dart_code as one call: what it returns, or that it raised,
\* given what the checker and the repair collaborator do when they are asked
validate_and_fix_dart_code(content, first, response, second) ==
    IF SKIP_DART_ANALYSIS THEN [raised |-> FALSE, ret |-> content]
    ELSE IF first.kind = "raise" THEN [raised |-> TRUE, ret |-> NoText]
    ELSE IF validate_dart_code(first) THEN [raised |-> FALSE, ret |-> content]
    ELSE IF second.kind = "raise" THEN [raised |-> TRUE, ret |-> NoText]
    ELSE [raised |-> FALSE,
          ret |-> second_check_result(content, fix_dart_code(content, response),
                                      validate_dart_code(second))]

\* what the loop's collaborator answers to a prompt for Dart text
LoopResponses == {<<FENCE_DART, NL, "alt", NL, FENCE>>, Raise}

\* The courses of a validate_and_fix_dart_code call the loop is followed
\* through: the first run passes, fails on a non-critical issue or raises;
\* or it fails critically, the repair answers or raises, and the second run
\* passes, fails critically or raises.
PassingRun == [kind |-> "ran", rc |-> 0, out |-> {}]
FailingRun == [kind |-> "ran", rc |-> 1, out |-> {"Error:"}]
RaisingRun == [kind |-> "raise", rc |-> 1, out |-> {}]
ValidatorCourses ==
    [ first : {PassingRun, [kind |-> "ran", rc |-> 1, out |-> NonCriticalDiagnostics], RaisingRun},
      response : {Raise}, second : {PassingRun} ]
    \cup [ first : {FailingRun}, response : LoopResponses,
           second : {PassingRun, FailingRun, RaisingRun} ]

\* the response that is no plan: the client raised, or answered neither a
\* dict with 'response' nor a string
NoResponse ==
    [ kind |-> "raise", has |-> {}, extra |-> FALSE, steps_is_list |-> TRUE, steps |-> <<>>,
      main_is_dict |-> TRUE, update_main_dart |-> NoUpdates,
      deps_is_list |-> TRUE, dependencies |-> <<>> ]

\* the user enters 'exit'
LExit ==
    /\ l_pc = "prompt"
    /\ l_pc' = "ended"
    /\ UNCHANGED <<USE_DART_VALIDATOR, flutter_process, l_tasks, g_attempt, g_seen, g_verdict,
                   task_plan, l_step, l_content, l_ops, l_main_calls, l_main_before>>
    /\ UNCHANGED <<svars, mvars, NotLoop>>

\* input() raises at the prompt, which is outside the try statement: the
\* input has ended (EOFError)
LInputRaises ==
    /\ l_pc = "prompt"
    /\ l_pc' = "raised"
    /\ UNCHANGED <<USE_DART_VALIDATOR, flutter_process, l_tasks, g_attempt, g_seen, g_verdict,
                   task_plan, l_step, l_content, l_ops, l_main_calls, l_main_before>>
    /\ UNCHANGED <<svars, mvars, NotLoop>>

\* the user enters a task: generate_task_plan is called
LTask ==
    /\ l_pc = "prompt"
    /\ l_tasks < MaxTasks
    /\ l_pc' = "plan" /\ l_tasks' = l_tasks + 1
    /\ g_attempt' = 0 /\ g_seen' = NoValue /\ g_verdict' = "none"
    /\ task_plan' = NoPlan /\ l_step' = 0 /\ l_content' = NoText
    /\ l_ops' = <<>> /\ l_main_calls' = 0 /\ l_main_before' = NoText
    /\ UNCHANGED <<USE_DART_VALIDATOR, flutter_process>>
    /\ UNCHANGED <<svars, mvars, NotLoop>>

\* one attempt of generate_task_plan: the value extract_json parsed from the
\* response is validated and, if accepted, reduced and returned to the loop,
\* whose own test of the plan (a dict with 'steps') the reduced plan passes;
\* after the last attempt the ValueError takes the loop back to its prompt
GAttempt(value) ==
    /\ l_pc = "plan"
    /\ LET verdict == IF value.kind = "raise" THEN "raise"
                      ELSE IF ~truthy(value) THEN "reject"
                      ELSE validate_task_plan(value)
           plan == simplify_plan(value)
       IN  /\ g_seen' = [kind |-> value.kind, has |-> value.has]
           /\ g_verdict' = verdict
           /\ task_plan' = IF verdict = "accept" THEN plan ELSE NoPlan
           /\ l_pc' = IF verdict = "accept"
                      THEN (IF plan.steps = <<>> THEN "main" ELSE "step")
                      ELSE IF g_attempt + 1 = max_retries THEN "prompt" ELSE "plan"
    /\ g_attempt' = g_attempt + 1
    /\ UNCHANGED <<USE_DART_VALIDATOR, flutter_process, l_tasks, l_step, l_content, l_ops,
                   l_main_calls, l_main_before>>
    /\ UNCHANGED <<svars, mvars, NotLoop>>

\* the step the loop stands at
current_step == task_plan.steps[l_step + 1]

\* where the loop goes on after the step it stands at
after_step == IF l_step + 1 = Len(task_plan.steps) THEN "main" ELSE "step"

\* create_file / update_file: generate_file_content; with the analysis
\* switched on the content then goes to flutter_validator, which is None
\* when USE_DART_VALIDATOR is off
LStepGenerate(response) ==
    /\ l_pc = "step"
    /\ current_step.type \in {"create_file", "update_file"}
    /\ l_content' = IF response = Raise
                    THEN dict_get(file_contents, current_step.file_path, <<>>)
                    ELSE remove_code_markers(strip(response))
    /\ l_pc' = IF SKIP_DART_ANALYSIS THEN "integrity"
               ELSE IF USE_DART_VALIDATOR THEN "validate" ELSE "prompt"
    /\ UNCHANGED <<USE_DART_VALIDATOR, flutter_process, l_tasks, g_attempt, g_seen, g_verdict,
                   task_plan, l_step, l_ops, l_main_calls, l_main_before>>
    /\ UNCHANGED <<svars, mvars, NotLoop>>

\* flutter_validator.validate_and_fix_dart_code(content, file_path), called
\* outside any handler of its own
LStepValidate(course) ==
    /\ l_pc = "validate"
    /\ LET validated == validate_and_fix_dart_code(l_content, course.first, course.response,
                                                   course.second)
       IN  IF validated.raised
           THEN l_pc' = "prompt" /\ UNCHANGED l_content
           ELSE l_pc' = "integrity" /\ l_content' = validated.ret
    /\ UNCHANGED <<USE_DART_VALIDATOR, flutter_process, l_tasks, g_attempt, g_seen, g_verdict,
                   task_plan, l_step, l_ops, l_main_calls, l_main_before>>
    /\ UNCHANGED <<svars, mvars, NotLoop>>

\* verify_code_integrity for a file the store holds (its answer is only
\* logged, its failure ends the task), then update_file
LStepWrite(integrity) ==
    /\ l_pc = "integrity"
    /\ IF current_step.file_path \in dict_keys(file_contents)
          /\ (~USE_DART_VALIDATOR \/ integrity = "raise")
       THEN /\ l_pc' = "prompt"
            /\ UNCHANGED <<svars, l_step, l_ops>>
       ELSE /\ update_file(current_step.file_path, l_content)
            /\ UNCHANGED <<s_digest, s_reads>>
            /\ l_ops' = Append(l_ops, [type |-> current_step.type,
                                       file_path |-> current_step.file_path])
            /\ l_step' = l_step + 1
            /\ l_pc' = after_step
    /\ UNCHANGED <<USE_DART_VALIDATOR, flutter_process, l_tasks, g_attempt, g_seen, g_verdict,
                   task_plan, l_content, l_main_calls, l_main_before>>
    /\ UNCHANGED <<mvars, NotLoop>>

\* delete_file: the store removes the file, scans, and raises its NameError,
\* which ends the task
LStepDelete ==
    /\ l_pc = "step"
    /\ current_step.type = "delete_file"
    /\ delete_file(current_step.file_path)
    /\ UNCHANGED <<s_digest, s_reads>>
    /\ l_ops' = Append(l_ops, [type |-> "delete_file", file_path |-> current_step.file_path])
    /\ l_pc' = "prompt"
    /\ UNCHANGED <<USE_DART_VALIDATOR, flutter_process, l_tasks, g_attempt, g_seen, g_verdict,
                   task_plan, l_step, l_content, l_main_calls, l_main_before>>
    /\ UNCHANGED <<mvars, NotLoop>>

\* a step of any other type is passed over
LStepSkip ==
    /\ l_pc = "step"
    /\ current_step.type \notin {"create_file", "update_file", "delete_file"}
    /\ l_step' = l_step + 1
    /\ l_pc' = after_step
    /\ UNCHANGED <<USE_DART_VALIDATOR, flutter_process, l_tasks, g_attempt, g_seen, g_verdict,
                   task_plan, l_content, l_ops, l_main_calls, l_main_before>>
    /\ UNCHANGED <<svars, mvars, NotLoop>>

\* one attempt of TaskPlanner.update_main_dart on the content the store gives
\* for lib/main.dart: the first answer is returned with its code markers
\* removed, the content itself after the last failed attempt
LMainAttempt(response) ==
    /\ l_pc = "main"
    /\ LET main_dart_content == dict_get(file_contents, main_dart_path, <<>>)
       IN  /\ l_main_before' = main_dart_content
           /\ IF response # Raise
              THEN l_pc' = "main_validate" /\ l_content' = remove_code_markers(strip(response))
              ELSE IF l_main_calls + 1 = max_retries
              THEN l_pc' = "main_validate" /\ l_content' = main_dart_content
              ELSE l_pc' = "main" /\ UNCHANGED l_content
    /\ l_main_calls' = l_main_calls + 1
    /\ UNCHANGED <<USE_DART_VALIDATOR, flutter_process, l_tasks, g_attempt, g_seen, g_verdict,
                   task_plan, l_step, l_ops>>
    /\ UNCHANGED <<svars, mvars, NotLoop>>

\* safe_validate_dart_code, which gives the content back when there is no
\* validator or the validator raises, then update_file('lib/main.dart', ...)
LMainWrite(course) ==
    /\ l_pc = "main_validate"
    /\ LET validated == validate_and_fix_dart_code(l_content, course.first, course.response,
                                                   course.second)
           validated_main_dart == IF ~USE_DART_VALIDATOR \/ validated.raised THEN l_content
                                  ELSE validated.ret
       IN  /\ update_file(main_dart_path, validated_main_dart)
           /\ l_content' = validated_main_dart
    /\ UNCHANGED <<s_digest, s_reads>>
    /\ l_ops' = Append(l_ops, [type |-> "update_main_dart", file_path |-> main_dart_path])
    /\ l_pc' = IF task_plan.dependencies # <<>> THEN "dependencies" ELSE "run"
    /\ UNCHANGED <<USE_DART_VALIDATOR, flutter_process, l_tasks, g_attempt, g_seen, g_verdict,
                   task_plan, l_step, l_main_calls, l_main_before>>
    /\ UNCHANGED <<mvars, NotLoop>>

\* update_pubspec_yaml, then 'flutter pub get' with check=True
LDependencies(fetched) ==
    /\ l_pc = "dependencies"
    /\ pubspec_yaml' = update_pubspec_yaml(pubspec_yaml, task_plan.dependencies)
    /\ m_declared' = applied(m_declared, dependency_lines(task_plan.dependencies))
    /\ m_new' = task_plan.dependencies
    /\ m_merges' = m_merges + 1
    /\ l_ops' = Append(l_ops, [type |-> "update_pubspec_yaml", file_path |-> pubspec_path])
    /\ l_pc' = IF fetched THEN "run" ELSE "prompt"
    /\ UNCHANGED <<USE_DART_VALIDATOR, flutter_process, l_tasks, g_attempt, g_seen, g_verdict,
                   task_plan, l_step, l_content, l_main_calls, l_main_before>>
    /\ UNCHANGED <<svars, NotLoop>>

\* the app is started, or hot-reloaded and on a failed reload started again;
\* run_flutter_app returns the process or None
LRun(started, reloaded) ==
    /\ l_pc = "run"
    /\ flutter_process' = IF flutter_process /\ reloaded THEN flutter_process ELSE started
    /\ l_pc' = "prompt"
    /\ UNCHANGED <<USE_DART_VALIDATOR, l_tasks, g_attempt, g_seen, g_verdict,
                   task_plan, l_step, l_content, l_ops, l_main_calls, l_main_before>>
    /\ UNCHANGED <<svars, mvars, NotLoop>>

LoopIdle ==
    /\ USE_DART_VALIDATOR = TRUE /\ flutter_process = FALSE
    /\ l_pc = "prompt" /\ l_tasks = 0
    /\ g_attempt = 0 /\ g_seen = NoValue /\ g_verdict = "none"
    /\ task_plan = NoPlan /\ l_step = 0 /\ l_content = NoText
    /\ l_ops = <<>> /\ l_main_calls = 0 /\ l_main_before = NoText

\* a new Flutter project: lib/main.dart and pubspec.yaml, the store loaded,
\* the app running or not
LoopInit ==
    /\ USE_DART_VALIDATOR \in BOOLEAN /\ flutter_process \in BOOLEAN
    /\ l_pc = "prompt" /\ l_tasks = 0
    /\ g_attempt = 0 /\ g_seen = NoValue /\ g_verdict = "none"
    /\ task_plan = NoPlan /\ l_step = 0 /\ l_content = NoText
    /\ l_ops = <<>> /\ l_main_calls = 0 /\ l_main_before = NoText
    /\ disk = [p \in Paths |-> IF p = home_screen_path THEN NoText ELSE <<"code">>]
    /\ file_contents = scanned_contents(disk, <<main_dart_path>>)
    /\ project_structure = scanned_structure(disk, <<main_dart_path>>)
    /\ s_op = "init" /\ s_raised = FALSE /\ s_digest = NoDigest /\ s_reads = 0
    /\ pubspec_yaml = <<Ln("other"), Ln("deps_header"), Ln("flutter"), Ln("sdk"),
                        DepLn("provider", "^0.13.0"), Ln("blank"), Ln("dev_header"),
                        DepLn("flutter_test", "^1.0.0"), Ln("other")>>
    /\ m_declared = [NoDeclarations EXCEPT !["provider"] = "^0.13.0"]
    /\ m_new = <<>> /\ m_merges = 0

NextLoop ==
    \/ LExit
    \/ LInputRaises
    \/ LTask
    \/ \E value \in PlanValues \cup {NoResponse} : GAttempt(value)
    \/ \E response \in LoopResponses : LStepGenerate(response)
    \/ \E course \in ValidatorCourses : LStepValidate(course)
    \/ \E integrity \in {"maintained", "issue", "raise"} : LStepWrite(integrity)
    \/ LStepDelete
    \/ LStepSkip
    \/ \E response \in LoopResponses : LMainAttempt(response)
    \/ \E course \in ValidatorCourses : LMainWrite(course)
    \/ \E fetched \in BOOLEAN : LDependencies(fetched)
    \/ \E started, reloaded \in BOOLEAN : LRun(started, reloaded)

----------------------------------------------------------------------------
(* Parsing of collaborator responses: parse_json_response, extract_json *)

\* the characters of a raw response: braces, brackets, a digit, a blank, a
\* letter; the fence stands for its three characters
RawChars == {"{", "}", "[", "]", "1", WS, "a", FENCE}
RawTexts == SeqsUpTo(RawChars, MaxRawLen)

\* a "key": value pair of an object, for the two keys the callers read
KV_CODE == "<code: 1>"
KV_STEPS == "<steps: 1>"

\* a JSON value as the callers see it: its type and, for an object, its keys
JsonValue(kind, keys) == [kind |-> kind, keys |-> keys]
EmptyDict == JsonValue("dict", {})
JSONDecodeError == JsonValue("error", {})

\* json.loads over these characters: white space around a value is skipped,
\* a run of digits is a number, an object is empty or holds one pair, an
\* array is empty or holds one value (no comma is among the characters)
RECURSIVE json_loads(_)
json_loads(text) ==
    LET t == strip(text)
        n == Len(t)
        inner == SubSeq(t, 2, n - 1)
    IN  IF n = 0 THEN JSONDecodeError
        ELSE IF \A i \in 1..n : t[i] = "1" THEN JsonValue("scalar", {})
        ELSE IF n >= 2 /\ t[1] = "{" /\ t[n] = "}"
        THEN IF strip(inner) = <<>> THEN EmptyDict
             ELSE IF strip(inner) = <<KV_CODE>> THEN JsonValue("dict", {"code"})
             ELSE IF strip(inner) = <<KV_STEPS>> THEN JsonValue("dict", {"steps"})
             ELSE JSONDecodeError
        ELSE IF n >= 2 /\ t[1] = "[" /\ t[n] = "]"
        THEN IF strip(inner) = <<>> \/ json_loads(inner).kind # "error"
             THEN JsonValue("list", {})
             ELSE JSONDecodeError
        ELSE JSONDecodeError

\* what a parse call returns
Ret(tag, code, summary, value) ==
    [tag |-> tag, code |-> code, summary |-> summary, value |-> value]
NoRet == Ret("none", <<>>, <<>>, JSONDecodeError)
RetJson(value) == Ret("json", <<>>, <<>>, value)

\* the value of a key of the parsed object, as text ('' when the key is missing)
json_get(parsed, key) == IF key \in parsed.keys THEN <<"1">> ELSE <<>>
\* json.dumps of that value
json_dumps(text) == IF text = <<>> THEN <<"<quotes>">> ELSE text

\* str.find / str.rfind of the fence, as positions in the sequence (0: not found)
find_fence(response) ==
    LET at == {i \in DOMAIN response : response[i] = FENCE}
    IN  IF at = {} THEN 0 ELSE CHOOSE i \in at : \A j \in at : i <= j
rfind_fence(response) ==
    LET at == {i \in DOMAIN response : response[i] = FENCE}
    IN  IF at = {} THEN 0 ELSE CHOOSE i \in at : \A j \in at : i >= j

\* response[2:], taken when rfind gave -1 and 3 was added to it
from_third_char(response) == SubSeq(response, 3, Len(response))

\* the manual extraction of parse_json_response: code between the first and
\* the last fence (the whole response without a fence), summary behind the
\* last fence, or before the first one when nothing is behind
extract_code(response) ==
    IF rfind_fence(response) # 0
    THEN strip(SubSeq(response, find_fence(response) + 1, rfind_fence(response) - 1))
    ELSE strip(response)

extract_summary(response) ==
    LET last == rfind_fence(response)
        behind == IF last # 0 THEN strip(SubSeq(response, last + 1, Len(response)))
                  ELSE strip(from_third_char(response))
    IN  IF behind # <<>> THEN behind
        ELSE IF find_fence(response) # 0
             THEN strip(SubSeq(response, 1, find_fence(response) - 1))
             ELSE <<>>

\* parse_json_response up to the call of correct_json: the value returned, or
\* NoRet when the correction is needed
parse_json_response(response) ==
    LET parsed == json_loads(response)
        code == extract_code(response)
        summary == extract_summary(response)
    IN  IF parsed.kind = "dict"
        THEN Ret("code_summary", json_get(parsed, "code"),
                 json_dumps(json_get(parsed, "summary")), JSONDecodeError)
        ELSE IF parsed.kind = "list" THEN Ret("tasks", <<>>, <<>>, parsed)
        ELSE IF code = <<>> /\ summary = <<>> THEN NoRet
        ELSE Ret("code_summary", code, summary, JSONDecodeError)

\* what the collaborator answers to a correction prompt
CorrectionAnswers ==
    { <<"{", "}">>, <<WS, "{", KV_CODE, "}", WS>>, <<"{", KV_STEPS, "}">>,
      <<"[", "]">>, <<"1">>, <<"a">>, <<FENCE, "{", "}", FENCE>>, <<>>, Raise }

\* correct_json: the answer stripped, '{}' when anything raised
correct_json(answer) == IF answer = Raise THEN <<"{", "}">> ELSE strip(answer)

\* an outcome of a try block: a value, or an exception that left it
Returned(ret) == [raised |-> FALSE, ret |-> ret]
Raised == [raised |-> TRUE, ret |-> NoRet]

\* a correction that lets the JSONDecodeError of the corrected text through
corrected_uncaught(answer) ==
    IF json_loads(correct_json(answer)).kind = "error" THEN Raised
    ELSE Returned(RetJson(json_loads(correct_json(answer))))

\* the try block at the end of parse_json_response
corrected(answer) ==
    IF json_loads(correct_json(answer)).kind = "error" THEN Returned(RetJson(EmptyDict))
    ELSE Returned(RetJson(json_loads(correct_json(answer))))

\* re.search(r'\{.*\}', text, re.DOTALL): from the first '{' to the last '}'
\* behind it; <<>> for no match
brace_match(text) ==
    LET opens == {i \in DOMAIN text : text[i] = "{"}
        first == CHOOSE i \in opens : \A j \in opens : i <= j
        closes == {j \in DOMAIN text : text[j] = "}" /\ j > first}
        last == CHOOSE j \in closes : \A k \in closes : j >= k
    IN  IF opens = {} THEN <<>>
        ELSE IF closes = {} THEN <<>>
        ELSE SubSeq(text, first, last)

\* extract_json up to the call of _get_structured_response
extract_json(text) ==
    IF json_loads(text).kind # "error" THEN RetJson(json_loads(text))
    ELSE IF brace_match(text) # <<>> /\ json_loads(brace_match(text)).kind # "error"
         THEN RetJson(json_loads(brace_match(text)))
         ELSE NoRet

\* _get_structured_response: the answer parsed, {} when anything raised
get_structured_response(answer) ==
    IF answer = Raise \/ json_loads(answer).kind = "error"
    THEN Returned(RetJson(EmptyDict))
    ELSE Returned(RetJson(json_loads(answer)))

\* the call under way: the first part runs to a return or to the correction
JParse ==
    /\ j_pc = "start"
    /\ LET ret == IF j_fn = "parse_json_response" THEN parse_json_response(j_text)
                  ELSE extract_json(j_text)
       IN  /\ j_ret' = ret
           /\ j_pc' = IF ret = NoRet THEN "correct" ELSE "done"
    /\ UNCHANGED <<j_fn, j_text, j_calls, j_raised, j_answer>>
    /\ UNCHANGED NotJson

\* the correction collaborator is asked once and the call returns
JCorrect(answer) ==
    /\ j_pc = "correct"
    /\ LET out == IF j_fn = "parse_json_response" THEN corrected(answer)
                  ELSE get_structured_response(answer)
       IN  /\ j_ret' = out.ret
           /\ j_raised' = out.raised
    /\ j_calls' = j_calls + 1
    /\ j_answer' = answer
    /\ j_pc' = "done"
    /\ UNCHANGED <<j_fn, j_text>>
    /\ UNCHANGED NotJson

ParseFunctions == {"parse_json_response", "extract_json"}

JsonInit ==
    /\ j_fn \in ParseFunctions /\ j_text \in RawTexts
    /\ j_pc = "start" /\ j_calls = 0 /\ j_raised = FALSE
    /\ j_ret = NoRet /\ j_answer = <<>>

\* no response is being parsed
JsonIdle ==
    /\ j_fn = "parse_json_response" /\ j_text = <<>>
    /\ j_pc = "done" /\ j_calls = 0 /\ j_raised = FALSE
    /\ j_ret = NoRet /\ j_answer = <<>>

NextJson ==
    \/ JParse
    \/ \E answer \in CorrectionAnswers : JCorrect(answer)

----------------------------------------------------------------------------
(* TaskPlanner._simplify_plan on validated plans *)

screens_utils_path == [dirs |-> <<"lib", "screens", "utils">>, name |-> "format", ext |-> "dart"]
widget_test_path == [dirs |-> <<"test">>, name |-> "widget_test", ext |-> "dart"]

\* the steps a plan may hold, and the lists of them validate_task_plan lets through
PlanSteps ==
    { Step(type, file_path) :
        type \in {"create_file", "update_file", "delete_file", "rename_file"},
        file_path \in {main_dart_path, home_screen_path, utils_path, screens_utils_path,
                       latest_path, widget_test_path} }
StepLists == SeqsUpTo(PlanSteps, MaxSteps) \ {<<>>}

\* the entry-file descriptors a plan may hold
HomeRoute == [path |-> "/home", content |-> "HomeScreen()"]
PlanUpdates ==
    [ imports_to_add : {<<>>, <<"screens/home_screen.dart">>},
      routes_to_add : {<<>>, <<HomeRoute>>},
      initial_route : {None, "/home", "/cart"},
      providers_to_initialize : {<<>>, <<"CartProvider">>} ]

\* the dependency declarations a plan may hold; a declaration without the
\* key package_name reads as ''
PlanDepDecls ==
    [ package_name : {"http", "provider", "shared_preferences", "flutter", "path_provider", ""},
      version : {"^1.0.0"} ]
PlanDependencyLists == SeqsUpTo(PlanDepDecls, MaxDeps)

\* the validated plans the simplifier is followed on: any steps, any
\* descriptor, any dependencies, the other two parts being plain
PlainStep == <<Step("create_file", home_screen_path)>>
ValidatedPlans ==
    { [steps |-> steps, update_main_dart |-> NoUpdates, dependencies |-> <<>>] :
        steps \in StepLists }
    \cup { [steps |-> PlainStep, update_main_dart |-> updates, dependencies |-> <<>>] :
             updates \in PlanUpdates }
    \cup { [steps |-> PlainStep, update_main_dart |-> NoUpdates, dependencies |-> deps] :
             deps \in PlanDependencyLists }

QSimplify ==
    /\ q_pc = "start"
    /\ q_out' = simplify_plan(q_plan)
    /\ q_pc' = "done"
    /\ UNCHANGED q_plan
    /\ UNCHANGED NotSimplify

SimplifyInit == q_plan \in ValidatedPlans /\ q_pc = "start" /\ q_out = NoPlan

\* no plan is being simplified
SimplifyIdle == q_plan = NoPlan /\ q_pc = "done" /\ q_out = NoPlan

NextSimplify == QSimplify

----------------------------------------------------------------------------
(* run_flutter_app, the flutter run process and handle_flutter_output *)

\* a line of the process's output: any line, or the one that holds
\* "Flutter run key commands"
KEY_COMMANDS == "Flutter run key commands"
OutputLines == {"line", KEY_COMMANDS}

\* the threads of the program: the control flow and the output thread
MAIN == "main"
OUTPUT_THREAD == "output_thread"

\* a pass that would store the line it read under the entry file
handled_storing(output, project_files) ==
    dict_set(project_files, main_dart_path, <<output>>)

\* project_files as one pass of the loop of handle_flutter_output leaves it:
\* the pass prints the line and touches neither project_files nor client
handled(output, project_files) == project_files

\* the process writes a line to stdout: it goes into the pipe, or the process
\* blocks when the pipe is full
XWriteStdout(line) ==
    /\ x_process = "alive" /\ x_produced < MaxOutput
    /\ IF Len(x_stdout) < MaxPipe
       THEN /\ x_stdout' = Append(x_stdout, line)
            /\ x_produced' = x_produced + 1
            /\ UNCHANGED x_process
       ELSE /\ x_process' = "blocked_stdout"
            /\ UNCHANGED <<x_stdout, x_produced>>
    /\ UNCHANGED <<x_stderr, x_reader, x_read, x_main, x_writers>>
    /\ UNCHANGED NotReader

\* the process writes a line to stderr, a pipe no thread reads
XWriteStderr ==
    /\ x_process = "alive" /\ x_produced < MaxOutput
    /\ IF x_stderr < MaxPipe
       THEN /\ x_stderr' = x_stderr + 1
            /\ x_produced' = x_produced + 1
            /\ UNCHANGED x_process
       ELSE /\ x_process' = "blocked_stderr"
            /\ UNCHANGED <<x_stderr, x_produced>>
    /\ UNCHANGED <<x_stdout, x_reader, x_read, x_main, x_writers>>
    /\ UNCHANGED NotReader

\* the process ends
XProcessExit ==
    /\ x_process = "alive"
    /\ x_process' = "exited"
    /\ UNCHANGED <<x_stdout, x_stderr, x_produced, x_reader, x_read, x_main, x_writers>>
    /\ UNCHANGED NotReader

\* one pass of the loop of handle_flutter_output: readline returns a line of
\* the pipe, or '' at the end of the output of a process that has exited (it
\* waits on an empty pipe of a running process); the loop ends on '' with the
\* process gone, and on the key commands line
XReadline ==
    /\ x_reader = "reading"
    /\ x_stdout # <<>> \/ x_process = "exited"
    /\ LET output == IF x_stdout # <<>> THEN Head(x_stdout) ELSE ""
       IN  /\ x_stdout' = IF x_stdout # <<>> THEN Tail(x_stdout) ELSE x_stdout
           /\ x_read' = IF output # "" THEN x_read + 1 ELSE x_read
           /\ x_reader' = IF (output = "" /\ x_process = "exited") \/ output = KEY_COMMANDS
                          THEN "ended" ELSE "reading"
           /\ file_contents' = handled(output, file_contents)
    /\ x_process' = IF x_process = "blocked_stdout" THEN "alive" ELSE x_process
    /\ UNCHANGED <<x_stderr, x_produced, x_main, x_writers>>
    /\ UNCHANGED <<disk, project_structure, s_op, s_raised, s_digest, s_reads>>
    /\ UNCHANGED <<vvars, mvars, ivars, rvars, lvars, jvars, qvars>>

\* run_flutter_app after time.sleep(30): the process is returned when poll()
\* is None, its remaining output is collected by communicate() otherwise
XRunFlutterAppReturns ==
    /\ x_main = "sleep"
    /\ x_main' = "loop"
    /\ IF x_process = "exited"
       THEN x_stdout' = <<>> /\ x_stderr' = 0
       ELSE UNCHANGED <<x_stdout, x_stderr>>
    /\ UNCHANGED <<x_process, x_produced, x_reader, x_read, x_writers>>
    /\ UNCHANGED NotReader

\* a step of a task on the control flow, first half: update_file writes the file
XWriteFile(content) ==
    /\ x_main = "loop" /\ MAIN \notin x_writers
    /\ disk[main_dart_path] # content
    /\ disk' = [disk EXCEPT ![main_dart_path] = content]
    /\ x_writers' = x_writers \cup {MAIN}
    /\ UNCHANGED <<x_process, x_stdout, x_stderr, x_produced, x_reader, x_read, x_main>>
    /\ UNCHANGED <<file_contents, project_structure, s_op, s_raised, s_digest, s_reads>>
    /\ UNCHANGED <<vvars, mvars, ivars, rvars, lvars, jvars, qvars>>

\* second half: update_file refreshes the store with update_context
XUpdateContext ==
    /\ x_main = "loop" /\ MAIN \in x_writers
    /\ \E order \in WalkOrders(disk) :
          /\ file_contents' = scanned_contents(disk, order)
          /\ project_structure' = scanned_structure(disk, order)
    /\ x_writers' = x_writers \ {MAIN}
    /\ UNCHANGED <<x_process, x_stdout, x_stderr, x_produced, x_reader, x_read, x_main>>
    /\ UNCHANGED <<disk, s_op, s_raised, s_digest, s_reads>>
    /\ UNCHANGED <<vvars, mvars, ivars, rvars, lvars, jvars, qvars>>

\* run_flutter_app has started the process and the output thread
ReaderInit ==
    /\ x_process = "alive" /\ x_stdout = <<>> /\ x_stderr = 0 /\ x_produced = 0
    /\ x_reader = "reading" /\ x_read = 0 /\ x_main = "sleep" /\ x_writers = {}
    /\ disk = [p \in Paths |-> IF p = main_dart_path THEN <<"code">> ELSE NoText]
    /\ file_contents = scanned_contents(disk, <<main_dart_path>>)
    /\ project_structure = scanned_structure(disk, <<main_dart_path>>)
    /\ s_op = "init" /\ s_raised = FALSE /\ s_digest = NoDigest /\ s_reads = 0

\* no process has been started
ReaderIdle ==
    /\ x_process = "exited" /\ x_stdout = <<>> /\ x_stderr = 0 /\ x_produced = 0
    /\ x_reader = "ended" /\ x_read = 0 /\ x_main = "loop" /\ x_writers = {}

NextReader ==
    \/ \E line \in OutputLines : XWriteStdout(line)
    \/ XWriteStderr
    \/ XProcessExit
    \/ XReadline
    \/ XRunFlutterAppReturns
    \/ \E content \in FileTexts : XWriteFile(content)
    \/ XUpdateContext

----------------------------------------------------------------------------
(* The specifications: one per component, the other components at rest *)

InitValidate == ValidatorInit /\ StoreIdle /\ ManifestIdle /\ ImportsIdle /\ EnsureIdle /\ LoopIdle /\ JsonIdle /\ SimplifyIdle /\ ReaderIdle
SpecValidate == InitValidate /\ [][NextValidate]_vars

InitStore == StoreInit /\ SKIP_DART_ANALYSIS = FALSE /\ VIdle /\ ManifestIdle /\ ImportsIdle /\ EnsureIdle /\ LoopIdle /\ JsonIdle /\ SimplifyIdle /\ ReaderIdle
SpecStore == InitStore /\ [][NextStore]_vars

InitManifest == ManifestInit /\ SKIP_DART_ANALYSIS = FALSE /\ VIdle /\ StoreIdle /\ ImportsIdle /\ EnsureIdle /\ LoopIdle /\ JsonIdle /\ SimplifyIdle /\ ReaderIdle
SpecManifest == InitManifest /\ [][NextManifest]_vars

InitImports == ImportsInit /\ SKIP_DART_ANALYSIS = FALSE /\ VIdle /\ StoreIdle /\ ManifestIdle /\ EnsureIdle /\ LoopIdle /\ JsonIdle /\ SimplifyIdle /\ ReaderIdle
SpecImports == InitImports /\ [][NextImports]_vars

InitEnsure ==
    EnsureInit /\ SKIP_DART_ANALYSIS = FALSE /\ VIdle /\ ManifestIdle /\ ImportsIdle /\ LoopIdle
    /\ JsonIdle /\ SimplifyIdle /\ ReaderIdle
SpecEnsure == InitEnsure /\ [][NextEnsure]_vars

InitLoop ==
    LoopInit /\ SKIP_DART_ANALYSIS \in BOOLEAN /\ VIdle /\ ImportsIdle /\ EnsureIdle /\ JsonIdle
    /\ SimplifyIdle /\ ReaderIdle
SpecLoop == InitLoop /\ [][NextLoop]_vars

InitJson ==
    JsonInit /\ SKIP_DART_ANALYSIS = FALSE /\ VIdle /\ StoreIdle /\ ManifestIdle /\ ImportsIdle
    /\ EnsureIdle /\ LoopIdle /\ SimplifyIdle /\ ReaderIdle
SpecJson == InitJson /\ [][NextJson]_vars

InitSimplify ==
    SimplifyInit /\ SKIP_DART_ANALYSIS = FALSE /\ VIdle /\ StoreIdle /\ ManifestIdle /\ ImportsIdle
    /\ EnsureIdle /\ LoopIdle /\ JsonIdle /\ ReaderIdle
SpecSimplify == InitSimplify /\ [][NextSimplify]_vars

InitReader ==
    ReaderInit /\ SKIP_DART_ANALYSIS = FALSE /\ VIdle /\ ManifestIdle /\ ImportsIdle
    /\ EnsureIdle /\ LoopIdle /\ JsonIdle /\ SimplifyIdle
SpecReader == InitReader /\ [][NextReader]_vars

----------------------------------------------------------------------------
(* Claims on the structural validator *)

\* a run of the checker that ended in a critical failure
CriticalFailure(obs) == obs.kind = "ran" /\ obs.rc # 0 /\ obs.critical

\* a run of the checker that failed with no critical diagnostic
NonCriticalFailure(obs) == obs.kind = "ran" /\ obs.rc # 0 /\ ~obs.critical

\* C1: with analysis not skipped, a call whose checker reports a critical
\* failure on the original content and again on the repaired content returns
\* the original content, never the repaired text.
C1_RevertOnFailure ==
    (v_pc = "done" /\ ~SKIP_DART_ANALYSIS
        /\ CriticalFailure(v_first) /\ CriticalFailure(v_second))
    => (~v_raised /\ v_ret = v_content)

\* C1 happens: two critical failures around a repair that changed the text
C1_Witness ==
    /\ v_pc = "done" /\ ~SKIP_DART_ANALYSIS
    /\ CriticalFailure(v_first) /\ CriticalFailure(v_second)
    /\ v_fixed # v_content /\ v_fixed # NoText
    /\ v_ret = v_content

\* C9: when the checker fails with no critical diagnostic, the call returns
\* the input unchanged and the text-repair collaborator is never invoked.
C9_NonCriticalIsPass ==
    NonCriticalFailure(v_first)
    => /\ v_pc = "done" /\ ~v_raised
       /\ v_ret = v_content
       /\ v_calls = <<"check">>
       /\ v_fixed = NoText

\* C9 happens: a failing run with only non-critical diagnostics has returned
C9_Witness ==
    /\ NonCriticalFailure(v_first)
    /\ v_pc = "done" /\ v_ret = v_content /\ v_content # <<>>

----------------------------------------------------------------------------
(* Claims on the project context store *)

\* the tracked mapping is the set of .dart files on disk, with their contents
StoreConsistent ==
    /\ dict_keys(file_contents) = dart_files_on(disk)
    /\ \A i \in DOMAIN file_contents :
          file_contents[i].content = disk[file_contents[i].path]
    /\ \A i, j \in DOMAIN file_contents :
          i # j => file_contents[i].path # file_contents[j].path

\* C2: after any sequence of update_file, delete_file and update_context calls,
\* and after a code-generation pass, the tracked mapping is exactly the set of
\* .dart files on disk and every tracked content equals the content on disk.
C2_StoreMatchesDisk == StoreConsistent

\* C10: a call of get_context_prompt that follows another with no operation in
\* between returns the same string, and no call changes the mapping or the
\* path listing.
C10_DigestDeterministic ==
    [][ (s_op' = "get_context_prompt" /\ s_reads' = s_reads + 1)
          => /\ file_contents' = file_contents
             /\ project_structure' = project_structure
             /\ (s_reads >= 1 => s_digest' = s_digest) ]_vars

\* C10 happens: a second call in a row has returned, over at least two files
C10_Witness ==
    /\ s_op = "get_context_prompt" /\ s_reads >= 2
    /\ Len(project_structure) >= 2
    /\ s_digest # NoDigest

----------------------------------------------------------------------------
(* Claims on the dependency manifest *)

\* the lines of the primary section that declare a package
lines_of(content, pkg) ==
    SelectSeq(primary_section(content), LAMBDA l : l.kind = "dep" /\ l.pkg = pkg)

\* C5: on a manifest that has a primary dependencies section, after each merge
\* call the primary section holds exactly one line per declared non-reserved
\* package name, and that line carries the version of the last declaration
\* applied.
C5_OneLinePerPackage ==
    (m_merges >= 1 /\ has_primary_section(pubspec_yaml))
    => \A pkg \in PackageNames :
          m_declared[pkg] # ""
          => lines_of(pubspec_yaml, pkg) = <<DepLn(pkg, m_declared[pkg])>>

----------------------------------------------------------------------------
(* Claims on the import merge *)

\* C6: applying manage_dart_imports to its own output with the same
\* imports_to_add yields exactly the text that one application yields.
C6_ImportMergeIdempotent ==
    (i_passes >= 2 /\ i_adds[1] = i_adds[2]) => i_text = i_before

----------------------------------------------------------------------------
(* Claims on the entry-point merge of ensure_correct_structure *)

----------------------------------------------------------------------------
(* Claims on the task planner and the development loop *)

\* C3: every plan value that lacks the steps, the update_main_dart or the
\* dependencies key is rejected by validate_task_plan (of TaskPlanner and of
\* TaskReviewManager), and generate_task_plan never returns a plan built
\* from such a value.
C3_MissingKeyRejected ==
    /\ \A v \in PlanValues :
          v.has # TopKeys
          => validate_task_plan(v) # "accept" /\ ~review_validate_task_plan(v)
    /\ g_verdict = "accept" => g_seen.kind = "dict" /\ g_seen.has = TopKeys
    /\ task_plan # NoPlan => g_verdict = "accept"

\* an attempt has parsed a dict without one of the keys and has not taken it
C3_Witness ==
    /\ g_attempt >= 1 /\ g_seen.kind = "dict"
    /\ g_seen.has # TopKeys /\ g_seen.has # {}
    /\ g_verdict = "reject" /\ task_plan = NoPlan

\* the last file operation of the task comes from the plan
from_plan(op, plan) ==
    \/ op.type = "update_main_dart"
    \/ op.type = "update_pubspec_yaml" /\ plan.dependencies # <<>>
    \/ \E k \in DOMAIN plan.steps :
          plan.steps[k].type = op.type /\ plan.steps[k].file_path = op.file_path

\* C4: generate_task_plan makes at most 3 attempts; the loop changes files,
\* the entry file and the manifest only by operations of a plan that
\* validation accepted; and when the third attempt fails too, the loop is
\* back at its prompt with no file operation, no entry-file update and no
\* manifest update done for that input.
C4_OnlyAcceptedPlanApplied ==
    [][ /\ g_attempt' <= 3
        /\ (\/ disk' # disk \/ file_contents' # file_contents
            \/ pubspec_yaml' # pubspec_yaml \/ (l_ops' # l_ops /\ l_ops' # <<>>))
              => /\ g_verdict = "accept" /\ task_plan' = task_plan
                 /\ Len(l_ops') = Len(l_ops) + 1
                 /\ from_plan(l_ops'[Len(l_ops')], task_plan)
        /\ (l_pc = "plan" /\ g_verdict' # "accept")
              => /\ l_ops' = <<>> /\ disk' = disk /\ file_contents' = file_contents
                 /\ pubspec_yaml' = pubspec_yaml
                 /\ l_pc' = (IF g_attempt' = 3 THEN "prompt" ELSE "plan") ]_vars

\* three attempts have failed and the loop is back at its prompt
C4_Witness ==
    /\ l_pc = "prompt" /\ l_tasks >= 1
    /\ g_attempt = 3 /\ g_verdict \in {"reject", "raise"}
    /\ l_ops = <<>> /\ task_plan = NoPlan

\* C8: when the plan's routes_to_add is empty, its initial_route null and its
\* providers_to_initialize empty, the reconcile step of the loop calls the
\* text-generation collaborator not once and leaves lib/main.dart as it was.
C8_NothingToMergeNoCall ==
    ( /\ g_verdict = "accept"
      /\ task_plan.update_main_dart.routes_to_add = <<>>
      /\ task_plan.update_main_dart.initial_route = None
      /\ task_plan.update_main_dart.providers_to_initialize = <<>> )
    => /\ l_main_calls = 0
       /\ (l_ops # <<>> /\ l_ops[Len(l_ops)].type = "update_main_dart")
             => disk[main_dart_path] = l_main_before

----------------------------------------------------------------------------
(* Claims about the store: ordering, read-your-writes, delete *)

\* the string get_context_prompt returns after a scan that walked in this order
digest_of_walk(dsk, order) ==
    get_context_prompt(scanned_structure(dsk, order), scanned_contents(dsk, order)).result

C12_ReadYourWrites ==
    [][ /\ \A path \in Paths, content \in FileTexts :
              SUpdateFile(path, content)
              => /\ disk'[path] = content
                 /\ get_file_content(file_contents', path) = content
        /\ \A path \in Paths :
              ( /\ disk[path] # NoText
                /\ get_file_content(file_contents, path) = disk[path]
                /\ disk'[path] = disk[path] )
              => get_file_content(file_contents', path) = disk'[path]
        /\ \A path \in Paths \ dict_keys(file_contents') :
              get_file_content(file_contents', path) = <<>> ]_vars

\* C13: delete_file(path) returns normally; a file present on disk is gone
\* from disk and from the mapping afterwards, and for a file absent from disk
\* the disk and the contents the mapping gives are what they were.
C13_DeleteReturnsNormally ==
    [][ \A path \in Paths :
           SDeleteFile(path)
           => /\ ~s_raised'
              /\ disk'[path] = NoText
              /\ path \notin dict_keys(file_contents')
              /\ disk[path] = NoText
                    => /\ disk' = disk
                       /\ \A q \in Paths : get_file_content(file_contents', q)
                                             = get_file_content(file_contents, q) ]_vars

----------------------------------------------------------------------------
(* Claims about response parsing *)

----------------------------------------------------------------------------
(* Claims about the frame of the manifest merge *)

\* the manifest without the lines of its primary section
outside_primary(content) ==
    LET heads == {i \in DOMAIN content : content[i].kind = "deps_header"}
    IN  IF heads = {} THEN content
        ELSE LET i == CHOOSE k \in heads : \A l \in heads : k <= l
             IN  SubSeq(content, 1, i)
                    \o SubSeq(content, i + 1 + Len(primary_section(content)), Len(content))

\* the package names a list of declarations names
declared_names(new_dependencies) ==
    {new_dependencies[k].package_name : k \in DOMAIN new_dependencies}

\* C15: a call of update_pubspec_yaml keeps every dependency line of the
\* primary section whose package is not among the new declarations, and
\* leaves all text outside the primary section as it was.
C15_MergeKeepsOtherLines ==
    [][ m_merges' = m_merges + 1
        => /\ \A i \in DOMAIN primary_section(pubspec_yaml) :
                 LET line == primary_section(pubspec_yaml)[i]
                 IN  (line.kind = "dep" /\ line.pkg \notin declared_names(m_new'))
                     => \E k \in DOMAIN primary_section(pubspec_yaml') :
                           primary_section(pubspec_yaml')[k] = line
           /\ outside_primary(pubspec_yaml') = outside_primary(pubspec_yaml) ]_vars

----------------------------------------------------------------------------
(* Claims about validation inside the development loop *)

\* a course of validate_and_fix_dart_code in which a collaborator failed: the
\* checker raised in a run that was made, or the repair collaborator raised
collaborator_failed(course) ==
    \/ course.first.kind = "raise"
    \/ /\ ~validate_dart_code(course.first)
       /\ (course.response = Raise \/ course.second.kind = "raise")

\* C16: whatever the checker and the repair collaborator do, the validation
\* of a plan step's content and of the entry file's content hands a content
\* value on to the write that follows, and hands on the content it was given
\* whenever a collaborator failed.
C16_ValidationNeverRaises ==
    [][ \A course \in ValidatorCourses :
           /\ LStepValidate(course)
              => /\ l_pc' = "integrity"
                 /\ collaborator_failed(course) => l_content' = l_content
           /\ LMainWrite(course)
              => /\ disk'[main_dart_path] = l_content'
                 /\ collaborator_failed(course) => l_content' = l_content ]_vars

----------------------------------------------------------------------------
(* Claims about the repair state machine *)

\* the three ends of a validate_and_fix_dart_code call
Passed == "repair" \notin {v_calls[i] : i \in DOMAIN v_calls} /\ ~v_raised /\ v_ret = v_content
Fixed ==
    /\ v_calls = <<"check", "repair", "check">> /\ ~v_raised
    /\ v_second.kind = "ran" /\ ~CriticalFailure(v_second)
    /\ v_ret = v_fixed
FixFailed ==
    /\ v_calls = <<"check", "repair", "check">> /\ ~v_raised
    /\ CriticalFailure(v_second)
    /\ v_ret = v_content

\* the collaborators are asked in the order check, repair, check, the repair
\* once at most and only after a critical failure of the first check
RepairOrder ==
    /\ v_calls \in {<<>>, <<"check">>, <<"check", "repair">>, <<"check", "repair", "check">>}
    /\ Len(v_calls) >= 2 => CriticalFailure(v_first)

\* C17: in one validate_and_fix_dart_code call the checker runs at most twice
\* and the repair collaborator at most once, in the order check, repair,
\* check; the repair follows a critical failure only; and the call ends in
\* exactly one of Passed, Fixed and FixFailed.
C17_RepairStateMachine ==
    /\ RepairOrder
    /\ v_pc = "done" => \/ (Passed /\ ~Fixed /\ ~FixFailed)
                        \/ (Fixed /\ ~Passed /\ ~FixFailed)
                        \/ (FixFailed /\ ~Passed /\ ~Fixed)

----------------------------------------------------------------------------
(* Claims about the gate on the entry file *)

\* C18: when the loop's entry-file update writes lib/main.dart a text other
\* than the one the store held, a text that came from a collaborator, that
\* text holds an import, the application widget, its class and a build
\* method, on disk and in the store.
C18_EntryGate ==
    [][ \A course \in ValidatorCourses :
           (LMainWrite(course) /\ disk'[main_dart_path] # l_main_before)
           => /\ passes_gate(disk'[main_dart_path])
              /\ passes_gate(get_file_content(file_contents', main_dart_path)) ]_vars

----------------------------------------------------------------------------
(* Claims about the steps of a plan *)

\* the step types development_loop acts on
StepTypes == {"create_file", "update_file", "delete_file"}

\* a step with a known type, a file path and a description
step_in_schema(step) ==
    /\ step.type \in StepTypes
    /\ step.file_path.name # ""
    /\ step.description # ""

\* C19: every step of the plan the loop goes through, a plan that
\* validate_task_plan accepted, has a type among create_file, update_file and
\* delete_file, a non-empty file_path and a non-empty description.
C19_StepsInSchema ==
    g_verdict = "accept"
    => \A k \in DOMAIN task_plan.steps : step_in_schema(task_plan.steps[k])

\* C20: a plan that generate_task_plan returned has at least one step.
C20_StepsNonEmpty ==
    g_verdict = "accept" => task_plan.steps # <<>>

----------------------------------------------------------------------------
(* Claims about the simplifier *)

\* C21: in the plan _simplify_plan gives back, initial_route is set exactly
\* when routes_to_add is not empty.
C21_RoutePairing ==
    g_verdict = "accept"
    => (task_plan.update_main_dart.initial_route # None
          <=> task_plan.update_main_dart.routes_to_add # <<>>)

\* a path that lies under a directory of this name
lies_under(file_path, dir) == \E k \in DOMAIN file_path.dirs : file_path.dirs[k] = dir

\* the step policy: steps under screens/ and steps on the entry file stay,
\* steps under test/, utils/ or helpers/ go, all others stay
kept_by_policy(step) ==
    IF lies_under(step.file_path, "screens") \/ step.file_path = main_dart_path THEN TRUE
    ELSE IF \E dir \in {"test", "utils", "helpers"} : lies_under(step.file_path, dir) THEN FALSE
    ELSE TRUE

\* C22: the steps _simplify_plan gives back are the steps of the validated
\* plan that the step policy keeps, in their input order.
C22_StepPolicy ==
    q_pc = "done" /\ q_plan # NoPlan
    => q_out.steps = SelectSeq(q_plan.steps, kept_by_policy)

\* the packages the simplifier lets through
AllowList == {"provider", "shared_preferences", "http"}
in_allow_list(dep) == dep.package_name \in AllowList

\* C23: the dependencies _simplify_plan gives back are the declarations of
\* the validated plan whose package_name is provider, shared_preferences or
\* http, in input order, and no other.
C23_DependencyAllowList ==
    q_pc = "done" /\ q_plan # NoPlan
    => q_out.dependencies = SelectSeq(q_plan.dependencies, in_allow_list)

\* C23 happens: of two declarations one went through and one was dropped
C23_Witness ==
    /\ q_pc = "done" /\ Len(q_plan.dependencies) = 2
    /\ Len(q_out.dependencies) = 1
    /\ q_out.dependencies[1] = q_plan.dependencies[2]
    /\ q_plan.dependencies[1].package_name = "path_provider"

----------------------------------------------------------------------------
(* Claims about the result of the import merge *)

\* the lines that are import statements, and the module each one names
import_statement(line) == line \in {IMPORT_A_INDENTED, IMPORT_A, IMPORT_B}
module_of(line) == IF line = IMPORT_B THEN "b.dart" ELSE "a.dart"

\* the requested imports that name a module no line before them names
RECURSIVE with_requested(_, _)
with_requested(import_lines, imports_to_add) ==
    IF imports_to_add = <<>> THEN import_lines
    ELSE LET named == {module_of(import_lines[k]) : k \in DOMAIN import_lines}
         IN  with_requested(IF module_of(Head(imports_to_add)) \in named THEN import_lines
                            ELSE Append(import_lines, Head(imports_to_add)),
                            Tail(imports_to_add))

\* the import statements with the requested ones, sorted, a blank line, and
\* the other lines as they were
merged_imports(lines, imports_to_add) ==
    sorted(with_requested(SelectSeq(lines, import_statement), imports_to_add))
        \o <<BLANK>> \o SelectSeq(lines, LAMBDA line : ~import_statement(line))

\* C24: a call of manage_dart_imports gives the existing import lines and a
\* line for each requested import whose module no import line names yet,
\* sorted, then one blank line, then the other lines unchanged and in order.
C24_ImportMergeResult ==
    [][ i_passes' = i_passes + 1
        => i_text' = merged_imports(i_text, i_adds'[1]) ]_vars

\* ---- C25: removal of duplicated definitions ----

\* the position of the brace that balances the first opening brace at or after
\* position k of text, 0 when there is none
RECURSIVE balanced_close(_, _, _)
balanced_close(text, k, depth) ==
    IF k > Len(text) THEN 0
    ELSE IF text[k] = "{" THEN balanced_close(text, k + 1, depth + 1)
    ELSE IF text[k] = "}" THEN (IF depth <= 1 THEN k ELSE balanced_close(text, k + 1, depth - 1))
    ELSE balanced_close(text, k + 1, depth)

\* text without the definition blocks of the component called widget_name: each
\* block runs from the class marker of exactly that name through its balanced
\* closing brace (and the line end that follows it)
RECURSIVE without_block(_, _)
without_block(widget_name, text) ==
    LET starts == {k \in DOMAIN text : text[k] = class_marker(widget_name)}
    IN  IF starts = {} THEN text
        ELSE LET i == CHOOSE k \in starts : \A l \in starts : k <= l
                 j == balanced_close(text, i + 1, 0)
                 stop == IF j < Len(text) /\ text[j + 1] = NL THEN j + 1 ELSE j
             IN  IF j = 0 THEN text
                 ELSE SubSeq(text, 1, i - 1)
                         \o without_block(widget_name, SubSeq(text, stop + 1, Len(text)))

\* the entry text without the blocks of every component the task context maps
\* to a file other than the entry file
RECURSIVE without_definitions(_, _)
without_definitions(widgets, text) ==
    IF widgets = <<>> THEN text
    ELSE without_definitions(Tail(widgets),
                             IF Head(widgets).content # main_dart_path
                             THEN without_block(Head(widgets).path, text)
                             ELSE text)

\* C25: the step removes from the entry text exactly the balanced definition
\* block of every component the task context maps to another file, and leaves
\* all other text as it was, blocks of components whose name only starts with
\* a removed name and blocks of components the entry file owns included
C25_RemovesExactlyTheBlock ==
    [][ (REnsureStructure /\ main_dart_path \in dict_keys(file_contents))
        => dict_get(file_contents', main_dart_path, <<>>)
              = without_definitions(created_widgets,
                                    dict_get(file_contents, main_dart_path, <<>>)) ]_vars

\* ---- C26: the initial route is a known route ----

\* the routes the route table of an entry text holds: the starting entry file
\* has no table; a merged file's table is taken to hold every route
AllRoutes == {"/home", "/login", "/main", "/cart"}
existing_routes(text) ==
    IF \E k \in DOMAIN text : text[k] = "routes" THEN AllRoutes ELSE {}

\* C26: across the calls of one session, the descriptor ensure_correct_structure
\* builds has initial_route null, or a key of its routes_to_add, or a route of
\* the entry file as the call found it
C26_InitialRouteIsARoute ==
    \/ r_updates.initial_route = None
    \/ r_updates.initial_route \in dict_keys(r_updates.routes_to_add)
    \/ r_updates.initial_route \in existing_routes(r_before.memory)

\* ---- C27: the fallback of parse_json_response ----

\* the response decodes to neither an object nor a list
not_a_document(response) == json_loads(response).kind \notin {"dict", "list"}

\* the text between the first and the last fence of a response that holds two
between_fences(response) ==
    SubSeq(response, find_fence(response) + 1, rfind_fence(response) - 1)

\* C27: a response that decodes to neither an object nor a list comes back
\* with code equal to the whole trimmed response when it holds no fence, and to
\* the (trimmed) text between the first and the last fence when it holds an
\* opening and a closing one
C27_FallbackCode ==
    (j_pc = "done" /\ j_fn = "parse_json_response" /\ not_a_document(j_text))
    => /\ find_fence(j_text) = 0
          => (j_ret.tag = "code_summary" /\ j_ret.code = strip(j_text))
       /\ (find_fence(j_text) # 0 /\ find_fence(j_text) # rfind_fence(j_text))
          => (j_ret.tag = "code_summary" /\ j_ret.code = strip(between_fences(j_text)))

\* ---- C28: the output thread drains the process ----

\* C28: handle_flutter_output ends only when the process has exited and its
\* output is used up, so a process that waits on a full stdout pipe has the
\* output thread reading it, and the process never waits on a pipe that no
\* thread reads
C28_ReaderDrains ==
    /\ x_reader = "ended" => (x_process = "exited" /\ x_stdout = <<>>)
    /\ x_process = "blocked_stdout" => x_reader = "reading"
    /\ x_process # "blocked_stderr"

\* ---- C29: the output thread leaves the store alone ----

\* C29: under every interleaving of the output thread with the control flow,
\* a pass of handle_flutter_output changes neither the project file mapping nor
\* the task context nor a project file, and only the control flow is ever in
\* the middle of a change of the store, so no two changes overlap
C29_ReaderIsolation ==
    /\ [](x_writers \subseteq {MAIN})
    /\ [][ XReadline => UNCHANGED <<file_contents, project_structure, disk,
                                    created_widgets, routes>> ]_vars

\* the output thread has read a line and goes on reading while the control
\* flow is between the write of a file and the refresh of the store
C29_Witness ==
    /\ x_read > 0 /\ x_reader = "reading" /\ x_stdout # <<>>
    /\ MAIN \in x_writers
    /\ dict_get(file_contents, main_dart_path, <<>>) # disk[main_dart_path]

\* ---- C30: what ends the task loop ----

\* development_loop is over: by its break, or by an exception that left it
Stopped == {"ended", "raised"}

\* C30: development_loop ends only by the user's 'exit' at the prompt; an
\* error raised while a task is processed takes the loop back to the prompt,
\* and no point inside a task stops the loop
C30_OnlyExitEnds ==
    [][ (l_pc \notin Stopped /\ l_pc' \in Stopped) => LExit ]_vars

====
